---- MODULE Spec2Model ----
(***************************************************************************)
(* Model of the OCM Demo Playground (idvoretskyi/osm-demo): the process    *)
(* runner (src/utils/commands.py), the registry lifecycle controller       *)
(* (src/utils/docker_utils.py), the environment manager                    *)
(* (src/core/environment.py), the demo runner (src/core/demo.py) and the   *)
(* command dispatcher (src/cli/commands.py).                               *)
(*                                                                         *)
(* The external system (search path, container engine, network, file       *)
(* system, clock) is the record `world`; every operation of the program is *)
(* an operator from a world to a result and the world it leaves behind.    *)
(***************************************************************************)
EXTENDS Integers, Sequences, FiniteSets, TLC

VARIABLES
    world,      \* the external system the program acts on
    dry_run,    \* the --dry-run flag the objects were constructed with
    config,     \* the process-wide Config singleton (utils/config.py)
    calls       \* the operations invoked so far, oldest first

vars == <<world, dry_run, config, calls>>

----------------------------------------------------------------------------
(* Bounds and program constants *)

MaxCalls == 2               \* operations invoked in succession on one world
MaxHealthAttempts == 30     \* docker_utils.py: for i in range(30)
SleepSeconds == 1           \* docker_utils.py: time.sleep(1)
NotFoundCode == 127         \* commands.py: CalledProcessError(127, ...)
GenericFailure == 1         \* commands.py: return 1, '', str(e)
InterruptCode == 130        \* cli/commands.py: return 130
DefaultPort == 5001         \* config.py: registry_port default
InternalPort == 5000        \* docker_utils.py: f'{port}:5000'
OtherPort == DefaultPort + 1 \* a port that is not the registry's

RequiredTools == {"docker", "ocm", "curl", "kubectl", "kind", "git"}
DefaultName == "local-registry"
OtherName == "other"
Never == 0 - 1              \* healthyAt of a registry that never answers
NoLines == << >>            \* the empty string '' as a sequence of lines

----------------------------------------------------------------------------
(* Helpers over sequences and sets *)

RECURSIVE SetToSeq(_)
SetToSeq(S) ==
    IF S = {} THEN << >>
    ELSE LET x == CHOOSE y \in S : TRUE IN <<x>> \o SetToSeq(S \ {x})

Range(s) == {s[i] : i \in 1..Len(s)}

\* str.strip().split('\n'): the empty output splits into one empty line
StripSplit(out) == IF out = NoLines THEN <<"">> ELSE out

----------------------------------------------------------------------------
(* Commands handed to the process runner *)

Cmd(form, prog, verb, name, port) ==
    [form |-> form, prog |-> prog, verb |-> verb, name |-> name, port |-> port]

\* A container of the engine: identified by its name (the engine accepts a
\* name or an id wherever the program passes one).
Container(name, port, running) ==
    [name |-> name, port |-> port, running |-> running]

Named(w, name) == {c \in w.containers : c.name = name}

\* the log of the programs the runner tried to execute: the command, the
\* time, whether the program was found and its exit code
Logged(w, c, found, rc) ==
    [w EXCEPT !.log = Append(@, [cmd |-> c, at |-> w.now, found |-> found, rc |-> rc])]

----------------------------------------------------------------------------
(* The container engine CLI, as the program uses it *)

DockerExec(c, w) ==
    IF ~w.daemonUp THEN [rc |-> 1, out |-> NoLines, w |-> w]
    ELSE CASE c.verb = "info" -> [rc |-> 0, out |-> <<"info">>, w |-> w]
      [] c.verb = "ps" ->
            [rc |-> 0,
             out |-> SetToSeq({k.name : k \in {x \in w.containers : x.running}}),
             w |-> w]
      [] c.verb = "ps_a_publish" ->
            [rc |-> 0,
             out |-> SetToSeq({k.name : k \in {x \in w.containers : x.port = c.port}}),
             w |-> w]
      [] c.verb = "rm_f" ->
            IF Named(w, c.name) = {} THEN [rc |-> 1, out |-> NoLines, w |-> w]
            ELSE [rc |-> 0, out |-> <<c.name>>,
                  w |-> [w EXCEPT !.containers = @ \ Named(w, c.name)]]
      [] c.verb = "rm" ->
            IF Named(w, c.name) = {} \/ \E k \in Named(w, c.name) : k.running
            THEN [rc |-> 1, out |-> NoLines, w |-> w]
            ELSE [rc |-> 0, out |-> <<c.name>>,
                  w |-> [w EXCEPT !.containers = @ \ Named(w, c.name)]]
      [] c.verb = "stop" ->
            IF Named(w, c.name) = {} THEN [rc |-> 1, out |-> NoLines, w |-> w]
            ELSE [rc |-> 0, out |-> <<c.name>>,
                  w |-> [w EXCEPT !.containers =
                            (@ \ Named(w, c.name)) \cup
                            {Container(k.name, k.port, FALSE) : k \in Named(w, c.name)}]]
      [] c.verb = "run" ->
            IF \/ w.runFails
               \/ Named(w, c.name) # {}
               \/ \E k \in w.containers : k.running /\ k.port = c.port
            THEN [rc |-> 125, out |-> NoLines, w |-> w]
            ELSE [rc |-> 0, out |-> <<c.name>>,
                  w |-> [w EXCEPT !.containers =
                            @ \cup {Container(c.name, c.port, TRUE)}]]
      [] OTHER -> [rc |-> 2, out |-> NoLines, w |-> w]

\* What a program that was found does: its exit code, output and effect.
OsExec(c, w) ==
    CASE c.prog = "docker" -> DockerExec(c, w)
      [] c.prog = "curl" ->
            IF w.healthyAt # Never /\ w.now >= w.healthyAt
            THEN [rc |-> 0, out |-> <<"{}">>, w |-> w]
            ELSE [rc |-> 7, out |-> NoLines, w |-> w]
      [] c.prog = "ocm" ->
            IF w.ocmWorks
            THEN [rc |-> 0, out |-> <<"ocm version">>, w |-> w]
            ELSE [rc |-> 1, out |-> NoLines, w |-> w]
      [] c.prog = "chmod" -> [rc |-> 0, out |-> NoLines, w |-> w]
      [] c.prog = "bash" /\ c.name \in w.failingScripts ->
            [rc |-> 1, out |-> NoLines, w |-> w]
      [] OTHER ->
            [rc |-> w.exitCode,
             out |-> IF w.exitCode = 0 THEN <<"ok">> ELSE NoLines,
             w |-> w]

----------------------------------------------------------------------------
(* utils/commands.py *)

\* Body applied to the value v: a local name for the result of a call,
\* evaluated once
With(v, Body(_)) == Body(v)

CommandExists(p, w) == p \in w.path

\* subprocess.run(command, capture_output, text=True, check, shell)
SubprocessRun(c, check, shell, w) ==
    IF ~CommandExists(c.prog, w)
    THEN IF shell
         THEN \* the shell reports the missing program by its exit code
              [exc |-> IF check THEN "CalledProcessError" ELSE "none",
               returncode |-> 127, stdout |-> NoLines,
               stderr |-> <<"not found">>, invoked |-> FALSE,
               w |-> Logged(w, c, FALSE, 127)]
         ELSE [exc |-> "FileNotFoundError", returncode |-> 0,
               stdout |-> NoLines, stderr |-> <<"No such file">>,
               invoked |-> FALSE, w |-> Logged(w, c, FALSE, NotFoundCode)]
    ELSE With(OsExec(c, w), LAMBDA r :
         [exc |-> IF check /\ r.rc # 0 THEN "CalledProcessError" ELSE "none",
          returncode |-> r.rc, stdout |-> r.out,
          stderr |-> IF r.rc = 0 THEN NoLines ELSE <<"error">>,
          invoked |-> TRUE, w |-> Logged(r.w, c, TRUE, r.rc)])

\* shell=None: auto-detected from the command's form
AutoShell(c, sh) == IF sh = "none" THEN c.form = "str" ELSE sh = "true"

\* the synthetic CompletedProcess of dry-run mode
DryRunResult(w) ==
    [raised |-> "none", returncode |-> 0, stdout |-> NoLines,
     stderr |-> NoLines, invoked |-> FALSE, w |-> w]

\* the try/except around subprocess.run: a CalledProcessError is re-raised,
\* a FileNotFoundError becomes CalledProcessError(127)
Caught(r) ==
    CASE r.exc = "none" ->
           [raised |-> "none", returncode |-> r.returncode,
            stdout |-> r.stdout, stderr |-> r.stderr,
            invoked |-> r.invoked, w |-> r.w]
      [] r.exc = "CalledProcessError" ->
           [raised |-> "CalledProcessError", returncode |-> r.returncode,
            stdout |-> r.stdout, stderr |-> r.stderr,
            invoked |-> r.invoked, w |-> r.w]
      [] r.exc = "FileNotFoundError" ->
           [raised |-> "CalledProcessError", returncode |-> NotFoundCode,
            stdout |-> NoLines, stderr |-> r.stderr,
            invoked |-> r.invoked, w |-> r.w]

\* faulty variant: the dry-run test is missing, the command is executed
RunIgnoringDryRun(dry, c, check, sh, w) ==
    Caught(SubprocessRun(c, check, AutoShell(c, sh), w))

\* faulty variant: check is hard-wired to True
RunAlwaysStrict(dry, c, check, sh, w) ==
    IF dry THEN DryRunResult(w)
    ELSE Caught(SubprocessRun(c, TRUE, AutoShell(c, sh), w))

\* CommandRunner.run; sh is the shell argument: "none", "true" or "false"
Run(dry, c, check, sh, w) ==
    IF dry THEN DryRunResult(w)
    ELSE Caught(SubprocessRun(c, check, AutoShell(c, sh), w))

\* CommandRunner.run_with_output
RunWithOutput(dry, c, w) ==
    With(Run(dry, c, FALSE, "none", w), LAMBDA r :
    IF r.raised = "none"
    THEN [raised |-> "none", returncode |-> r.returncode, stdout |-> r.stdout,
          stderr |-> r.stderr, invoked |-> r.invoked, w |-> r.w]
    ELSE [raised |-> "none", returncode |-> GenericFailure, stdout |-> NoLines,
          stderr |-> r.stderr, invoked |-> r.invoked, w |-> r.w])

----------------------------------------------------------------------------
(* utils/config.py *)

\* Config(): the dataclass defaults
DefaultConfig ==
    [registry_port |-> DefaultPort, registry_name |-> DefaultName,
     registry_host |-> "localhost", cluster_name |-> "ocm-demo",
     namespace |-> "ocm-demos", demo_duration |-> 300, project_root |-> "None"]

EnvVars ==
    {"OCM_DEMO_REGISTRY_PORT", "OCM_DEMO_REGISTRY_NAME", "OCM_DEMO_REGISTRY_HOST",
     "OCM_DEMO_CLUSTER_NAME", "OCM_DEMO_NAMESPACE", "OCM_DEMO_DURATION",
     "OCM_DEMO_PROJECT_ROOT"}

\* os.getenv(name, default); an absent variable is "unset"
GetEnv(env, name, default) == IF env[name] = "unset" THEN default ELSE env[name]

\* the decimal strings int() is given in this model
IsInt(str) == str \in {"5001", "5002", "5555", "300", "60"}

\* int(str) of such a string
ParseInt(str) ==
    CASE str = "5001" -> 5001 [] str = "5002" -> 5002 [] str = "5555" -> 5555
      [] str = "300" -> 300 [] str = "60" -> 60

\* faulty variant: the cluster name is read from the namespace variable
FromEnvironmentCrossed(env) ==
    IF \/ ~IsInt(GetEnv(env, "OCM_DEMO_REGISTRY_PORT", "5001"))
       \/ ~IsInt(GetEnv(env, "OCM_DEMO_DURATION", "300"))
    THEN [raised |-> "ValueError", cfg |-> [unset |-> TRUE]]
    ELSE [raised |-> "none",
          cfg |-> [registry_port |-> ParseInt(GetEnv(env, "OCM_DEMO_REGISTRY_PORT", "5001")),
                   registry_name |-> GetEnv(env, "OCM_DEMO_REGISTRY_NAME", "local-registry"),
                   registry_host |-> GetEnv(env, "OCM_DEMO_REGISTRY_HOST", "localhost"),
                   cluster_name |-> GetEnv(env, "OCM_DEMO_NAMESPACE", "ocm-demo"),
                   namespace |-> GetEnv(env, "OCM_DEMO_NAMESPACE", "ocm-demos"),
                   demo_duration |-> ParseInt(GetEnv(env, "OCM_DEMO_DURATION", "300")),
                   project_root |-> GetEnv(env, "OCM_DEMO_PROJECT_ROOT", "None")]]

\* Config.from_environment: int() raises ValueError on a non-numeric value
FromEnvironment(env) ==
    IF \/ ~IsInt(GetEnv(env, "OCM_DEMO_REGISTRY_PORT", "5001"))
       \/ ~IsInt(GetEnv(env, "OCM_DEMO_DURATION", "300"))
    THEN [raised |-> "ValueError", cfg |-> [unset |-> TRUE]]
    ELSE [raised |-> "none",
          cfg |-> [registry_port |-> ParseInt(GetEnv(env, "OCM_DEMO_REGISTRY_PORT", "5001")),
                   registry_name |-> GetEnv(env, "OCM_DEMO_REGISTRY_NAME", "local-registry"),
                   registry_host |-> GetEnv(env, "OCM_DEMO_REGISTRY_HOST", "localhost"),
                   cluster_name |-> GetEnv(env, "OCM_DEMO_CLUSTER_NAME", "ocm-demo"),
                   namespace |-> GetEnv(env, "OCM_DEMO_NAMESPACE", "ocm-demos"),
                   demo_duration |-> ParseInt(GetEnv(env, "OCM_DEMO_DURATION", "300")),
                   project_root |-> GetEnv(env, "OCM_DEMO_PROJECT_ROOT", "None")]]

\* Config.registry_url: f"{self.registry_host}:{self.registry_port}"
RegistryUrl(cfg) == cfg.registry_host \o ":" \o ToString(cfg.registry_port)

\* the module-level _config before the first get_config()
NoConfig == [unset |-> TRUE]

\* faulty variant: every call reads the environment again
GetConfigReloading(cfg, w) == FromEnvironment(w.environ)

\* set_config: replaces the singleton unconditionally; None is NoConfig
SetConfig(new, cfg, w) == [raised |-> "none", cfg |-> new]

\* get_config: loads the singleton on first use, returns it afterwards
GetConfig(cfg, w) ==
    IF cfg = NoConfig THEN FromEnvironment(w.environ)
    ELSE [raised |-> "none", cfg |-> cfg]

\* `x or default` for a string (None and '' are both falsy)
OrName(name, default) == IF name = "" THEN default ELSE name

\* `x or default` for an integer (None and 0 are both falsy)
OrPort(port, default) == IF port = 0 THEN default ELSE port

----------------------------------------------------------------------------
(* utils/docker_utils.py *)

\* DockerManager.check_docker_available
CheckDockerAvailable(dry, w) ==
    IF ~CommandExists("docker", w) THEN [ret |-> FALSE, w |-> w]
    ELSE With(Run(dry, Cmd("list", "docker", "info", "", 0), FALSE, "none", w),
              LAMBDA r : [ret |-> r.raised = "none" /\ r.returncode = 0, w |-> r.w])

\* faulty variant: the running-container list is not consulted
IsRegistryRunningNever(dry, name0, cfg, w) ==
    With(Run(dry, Cmd("list", "docker", "ps", "", 0), FALSE, "none", w),
         LAMBDA r : [ret |-> FALSE, w |-> r.w])

\* faulty variant: in dry-run mode the registry is taken to be running
IsRegistryRunningAssumed(dry, name0, cfg, w) ==
    With(Run(dry, Cmd("list", "docker", "ps", "", 0), FALSE, "none", w),
         LAMBDA r :
            [ret |-> \/ dry
                     \/ /\ r.raised = "none"
                        /\ r.returncode = 0
                        /\ OrName(name0, cfg.registry_name) \in Range(StripSplit(r.stdout)),
             w |-> r.w])

\* DockerManager.is_registry_running
IsRegistryRunning(dry, name0, cfg, w) ==
    With(Run(dry, Cmd("list", "docker", "ps", "", 0), FALSE, "none", w),
         LAMBDA r :
            [ret |-> /\ r.raised = "none"
                     /\ r.returncode = 0
                     /\ OrName(name0, cfg.registry_name) \in Range(StripSplit(r.stdout)),
             w |-> r.w])

\* DockerManager.is_registry_healthy
IsRegistryHealthy(dry, port0, cfg, w) ==
    With(Run(dry, Cmd("list", "curl", "health", "localhost",
                      OrPort(port0, cfg.registry_port)), FALSE, "none", w),
         LAMBDA r : [ret |-> r.raised = "none" /\ r.returncode = 0, w |-> r.w])

\* the loop of cleanup_registry_port: force-remove each listed container;
\* an exception leaves the loop (it is caught by the enclosing try)
RECURSIVE RemoveEach(_, _, _)
RemoveEach(dry, ids, w) ==
    IF ids = << >> THEN w
    ELSE IF Head(ids) = "" THEN RemoveEach(dry, Tail(ids), w)
    ELSE With(Run(dry, Cmd("list", "docker", "rm_f", Head(ids), 0), FALSE, "none", w),
              LAMBDA r : IF r.raised # "none" THEN r.w
                         ELSE RemoveEach(dry, Tail(ids), r.w))

\* DockerManager.cleanup_registry_port
CleanupRegistryPort(dry, port, w) ==
    With(Run(dry, Cmd("list", "docker", "ps_a_publish", "", port), FALSE, "none", w),
         LAMBDA r :
            IF r.raised = "none" /\ r.returncode = 0 /\ r.stdout # NoLines
            THEN RemoveEach(dry, StripSplit(r.stdout), r.w)
            ELSE r.w)

Sleep(w) == [w EXCEPT !.now = @ + SleepSeconds, !.sleeps = @ + 1]

\* faulty variant: the loop bound is off by one (range(31))
RECURSIVE PollHealthOneMore(_, _, _, _, _)
PollHealthOneMore(dry, port, cfg, i, w) ==
    IF i > MaxHealthAttempts THEN [ret |-> FALSE, raised |-> "none", w |-> w]
    ELSE With(IsRegistryHealthy(dry, port, cfg, w), LAMBDA h :
         IF h.ret THEN [ret |-> TRUE, raised |-> "none", w |-> h.w]
         ELSE PollHealthOneMore(dry, port, cfg, i + 1, Sleep(h.w)))

\* faulty variant: a poll that ran out of attempts reports success
RECURSIVE PollHealthOptimistic(_, _, _, _, _)
PollHealthOptimistic(dry, port, cfg, i, w) ==
    IF i >= MaxHealthAttempts THEN [ret |-> TRUE, raised |-> "none", w |-> w]
    ELSE With(IsRegistryHealthy(dry, port, cfg, w), LAMBDA h :
         IF h.ret THEN [ret |-> TRUE, raised |-> "none", w |-> h.w]
         ELSE PollHealthOptimistic(dry, port, cfg, i + 1, Sleep(h.w)))

\* the health poll of start_registry: for i in range(30)
RECURSIVE PollHealth(_, _, _, _, _)
PollHealth(dry, port, cfg, i, w) ==
    IF i >= MaxHealthAttempts THEN [ret |-> FALSE, raised |-> "none", w |-> w]
    ELSE With(IsRegistryHealthy(dry, port, cfg, w), LAMBDA h :
         IF h.ret THEN [ret |-> TRUE, raised |-> "none", w |-> h.w]
         ELSE PollHealth(dry, port, cfg, i + 1, Sleep(h.w)))

\* docker run -d -p {port}:5000 --name {name} registry:2
RunRegistryCmd(port, name) ==
    [form |-> "list", prog |-> "docker", verb |-> "run", name |-> name,
     port |-> port, internal |-> InternalPort, image |-> "registry:2"]

\* start_registry from the launch on: docker run with check=True inside the
\* try, then the health poll
LaunchRegistry(dry, port, name, cfg, w) ==
    With(Run(dry, RunRegistryCmd(port, name), TRUE, "none", w),
         LAMBDA rn :
            IF rn.raised # "none" \/ rn.returncode # 0
            THEN [ret |-> FALSE, raised |-> "none", w |-> rn.w]
            ELSE PollHealth(dry, port, cfg, 0, rn.w))

\* faulty variant: the target port is not released before the launch
ReplaceRegistryKeepingPort(dry, port, name, cfg, w) ==
    With(Run(dry, Cmd("list", "docker", "rm_f", name, 0), FALSE, "none", w),
         LAMBDA rm :
            IF rm.raised # "none"
            THEN [ret |-> FALSE, raised |-> rm.raised, w |-> rm.w]
            ELSE LaunchRegistry(dry, port, name, cfg, rm.w))

\* start_registry once the container was found not running: the port is
\* released, a stale container of the same name is removed (outside the try)
ReplaceRegistry(dry, port, name, cfg, w) ==
    With(Run(dry, Cmd("list", "docker", "rm_f", name, 0), FALSE, "none",
             CleanupRegistryPort(dry, port, w)),
         LAMBDA rm :
            IF rm.raised # "none"
            THEN [ret |-> FALSE, raised |-> rm.raised, w |-> rm.w]
            ELSE LaunchRegistry(dry, port, name, cfg, rm.w))

\* DockerManager.start_registry
StartRegistry(dry, port0, name0, cfg, w) ==
    With(IsRegistryRunning(dry, OrName(name0, cfg.registry_name), cfg, w),
         LAMBDA s :
            IF s.ret THEN [ret |-> TRUE, raised |-> "none", w |-> s.w]
            ELSE ReplaceRegistry(dry, OrPort(port0, cfg.registry_port),
                                 OrName(name0, cfg.registry_name), cfg, s.w))

\* stop_registry after the stop: the remove
\* faulty variant: a non-zero exit code of docker rm makes the stop fail
RemoveStoppedStrict(dry, name, w) ==
    With(Run(dry, Cmd("list", "docker", "rm", name, 0), FALSE, "none", w),
         LAMBDA rm : [ret |-> rm.raised = "none" /\ rm.returncode = 0,
                      raised |-> "none", w |-> rm.w])

RemoveStopped(dry, name, w) ==
    With(Run(dry, Cmd("list", "docker", "rm", name, 0), FALSE, "none", w),
         LAMBDA rm : [ret |-> rm.raised = "none", raised |-> "none", w |-> rm.w])

\* DockerManager.stop_registry
StopRegistry(dry, name0, cfg, w) ==
    With(Run(dry, Cmd("list", "docker", "stop", OrName(name0, cfg.registry_name), 0),
             FALSE, "none", w),
         LAMBDA st :
            IF st.raised # "none" THEN [ret |-> FALSE, raised |-> "none", w |-> st.w]
            ELSE RemoveStopped(dry, OrName(name0, cfg.registry_name), st.w))

\* the dict get_registry_status returns, from the results of its three probes
RegistryStatus(cfg, rr, rh, da) ==
    [ret |-> [name |-> cfg.registry_name, port |-> cfg.registry_port,
              url |-> "http://localhost:" \o ToString(cfg.registry_port),
              running |-> rr.ret, healthy |-> rh.ret,
              docker_available |-> da.ret],
     w |-> da.w]

\* faulty variant: the status call tears the registry down before it looks
GetRegistryStatusAfterStop(dry, cfg, w) ==
    With(StopRegistry(dry, "", cfg, w), LAMBDA s :
    With(IsRegistryRunning(dry, cfg.registry_name, cfg, s.w), LAMBDA rr :
    With(IsRegistryHealthy(dry, cfg.registry_port, cfg, rr.w), LAMBDA rh :
    RegistryStatus(cfg, rr, rh,
                   IF ~dry THEN CheckDockerAvailable(dry, rh.w)
                           ELSE [ret |-> TRUE, w |-> rh.w]))))

\* DockerManager.get_registry_status
GetRegistryStatus(dry, cfg, w) ==
    With(IsRegistryRunning(dry, cfg.registry_name, cfg, w), LAMBDA rr :
    With(IsRegistryHealthy(dry, cfg.registry_port, cfg, rr.w), LAMBDA rh :
    RegistryStatus(cfg, rr, rh,
                   IF ~dry THEN CheckDockerAvailable(dry, rh.w)
                           ELSE [ret |-> TRUE, w |-> rh.w])))

----------------------------------------------------------------------------
(* utils/ocm_utils.py *)

\* OCMClient.check_ocm_available
CheckOcmAvailable(dry, w) ==
    IF ~CommandExists("ocm", w) THEN [ret |-> FALSE, w |-> w]
    ELSE With(Run(dry, Cmd("list", "ocm", "version", "", 0), TRUE, "none", w),
              LAMBDA r : [ret |-> r.raised = "none", w |-> r.w])

\* OCMClient.get_version: the stripped output, or None when run raised
GetVersion(dry, w) ==
    With(Run(dry, Cmd("list", "ocm", "version", "", 0), TRUE, "none", w),
         LAMBDA r :
            [ret |-> IF r.raised = "none" THEN [none |-> FALSE, text |-> r.stdout]
                                          ELSE [none |-> TRUE, text |-> NoLines],
             w |-> r.w])

----------------------------------------------------------------------------
(* core/environment.py *)

\* faulty variant: the dict literal lacks the 'kind' entry
PrerequisitesWithoutKind(d, o) ==
    [ret |-> [docker |-> d.ret, ocm |-> o.ret,
              curl |-> CommandExists("curl", o.w),
              kubectl |-> CommandExists("kubectl", o.w),
              git |-> CommandExists("git", o.w)],
     w |-> o.w]

\* the prerequisites dict, from the results of the two tool checks
Prerequisites(d, o) ==
    [ret |-> [docker |-> d.ret, ocm |-> o.ret,
              curl |-> CommandExists("curl", o.w),
              kubectl |-> CommandExists("kubectl", o.w),
              kind |-> CommandExists("kind", o.w),
              git |-> CommandExists("git", o.w)],
     w |-> o.w]

\* EnvironmentManager.check_prerequisites: the dict literal, in order
CheckPrerequisites(dry, w) ==
    With(CheckDockerAvailable(dry, w), LAMBDA d :
         Prerequisites(d, CheckOcmAvailable(dry, d.w)))

\* all(d.values())
AllValues(d) == \A k \in DOMAIN d : d[k]

\* faulty variant: readiness asks for a healthy registry instead of a running one
EnvironmentReadyHealthy(prerequisites, registry_status) ==
    AllValues(prerequisites) /\ registry_status.healthy

\* the 'ready' entry of get_environment_status
EnvironmentReady(prerequisites, registry_status) ==
    AllValues(prerequisites) /\ registry_status.running

\* the dict get_environment_status returns
EnvironmentStatus(p, r, v) ==
    [ret |-> [prerequisites |-> p.ret, registry |-> r.ret,
              ocm_version |-> v.ret,
              ready |-> EnvironmentReady(p.ret, r.ret)],
     w |-> v.w]

\* EnvironmentManager.get_environment_status
GetEnvironmentStatus(dry, cfg, w) ==
    With(CheckPrerequisites(dry, w), LAMBDA p :
    With(GetRegistryStatus(dry, cfg, p.w), LAMBDA r :
    EnvironmentStatus(p, r, GetVersion(dry, r.w))))

\* str.lower() on the values platform.system() and platform.machine() return
Lower(s) ==
    CASE s = "Darwin" -> "darwin" [] s = "Linux" -> "linux"
      [] s = "Windows" -> "windows" [] s = "FreeBSD" -> "freebsd"
      [] s = "SunOS" -> "sunos"
      [] s = "AMD64" -> "amd64" [] s = "ARM64" -> "arm64"
      [] OTHER -> s

Effect(w, e) == [w EXCEPT !.fx = @ \cup {e}]

\* the parts a file name's suffix is made of
Parts(suffix) ==
    CASE suffix = "" -> << >>
      [] suffix = ".exe.sha256" -> <<".exe", ".sha256">>
      [] suffix = ".tar.gz" -> <<".tar", ".gz">>
      [] OTHER -> <<suffix>>

\* asset['name'] of a release asset, as the sequence of its parts
AssetName(asset) == <<"ocm", asset.tag, asset.os, asset.arch>> \o Parts(asset.suffix)

\* f"ocm-{release_data['tag_name']}-{os_name}-{arch}", '.exe' on windows
BinaryName(tag, os_name, arch) ==
    <<"ocm", tag, os_name, arch>> \o (IF os_name = "windows" THEN <<".exe">> ELSE << >>)

\* Python's `sub in name` on strings
Contains(name, sub) ==
    \E i \in 1..(Len(name) - Len(sub) + 1) : SubSeq(name, i, i + Len(sub) - 1) = sub

\* `binary_name in asset['name']`: the asset's name contains the binary name
NameContains(asset, tag, os_name, arch) ==
    Contains(AssetName(asset), BinaryName(tag, os_name, arch))

\* the first asset of the release whose name contains the binary name
RECURSIVE FirstMatch(_, _, _, _)
FirstMatch(assets, tag, os_name, arch) ==
    IF assets = << >> THEN << >>
    ELSE IF NameContains(Head(assets), tag, os_name, arch) THEN <<Head(assets)>>
    ELSE FirstMatch(Tail(assets), tag, os_name, arch)

\* EnvironmentManager._get_install_directory
GetInstallDirectory(w) ==
    IF Lower(w.os) = "windows" THEN "~/bin"
    ELSE \* on PATH, and the directory's parent is writable
         LET ok(d) == d \in w.pathDirs /\ d \in w.writableDirs IN
         IF ok("~/.local/bin") THEN "~/.local/bin"
         ELSE IF ok("~/bin") THEN "~/bin"
         ELSE IF ok("/usr/local/bin") THEN "/usr/local/bin"
         ELSE "~/.local/bin"

\* faulty variant: the installation is not verified after the move
PlaceBinaryUnverified(dry, asset, dir, w) ==
    IF ~dry /\ w.moveFails THEN [ret |-> FALSE, w |-> w]
    ELSE [ret |-> TRUE,
          w |-> IF dry THEN w
                ELSE [Effect(w, "fs_install") EXCEPT
                         !.installed = {[dir |-> dir, asset |-> asset]},
                         !.path = IF dir \in w.pathDirs THEN @ \cup {"ocm"} ELSE @]]

\* _download_and_install_ocm from the download on: the asset is written to a
\* temporary file, the install directory is created, and the binary is
\* moved there unless dry_run is set
\* os.rename raises OSError when the move cannot be done (moveFails): the
\* enclosing except turns it into False
PlaceBinary(dry, asset, dir, w) ==
    IF ~dry /\ w.moveFails THEN [ret |-> FALSE, w |-> w]
    ELSE With(IF dry THEN w
              ELSE [Effect(w, "fs_install") EXCEPT
                       !.installed = {[dir |-> dir, asset |-> asset]},
                       !.path = IF dir \in w.pathDirs THEN @ \cup {"ocm"} ELSE @],
              LAMBDA w4 : [ret |-> CommandExists("ocm", w4) \/ dry, w |-> w4])

\* _download_and_install_ocm once entered with (os_name, arch)
FetchRelease(dry, os_name, arch, w) ==
    IF ~w.online THEN [ret |-> FALSE, w |-> w]
    ELSE With(FirstMatch(w.release.assets, w.release.tag_name, os_name, arch),
              LAMBDA m :
                 IF m = << >> THEN [ret |-> FALSE, w |-> Effect(w, "net_release_query")]
                 ELSE PlaceBinary(dry, m[1], GetInstallDirectory(w),
                         [w EXCEPT !.fx = @ \cup {"net_release_query", "fs_tmpfile",
                                                  "net_download", "fs_makedirs"},
                                   !.downloaded = @ \cup {m[1]}]))

\* EnvironmentManager._download_and_install_ocm; the arguments of each call
\* are kept in downloadCalls
DownloadAndInstallOcm(dry, os_name, arch, w) ==
    FetchRelease(dry, os_name, arch,
                 [w EXCEPT !.downloadCalls = Append(@, [os_name |-> os_name, arch |-> arch])])

\* faulty variant: the architecture is handed on as the host reports it
InstallOcmCliRawArch(dry, w) ==
    IF CommandExists("ocm", w) THEN [ret |-> TRUE, w |-> w]
    ELSE IF Lower(w.machine) \notin {"x86_64", "amd64", "arm64", "aarch64"}
    THEN [ret |-> FALSE, w |-> w]
    ELSE IF Lower(w.os) \notin {"darwin", "linux", "windows"}
    THEN [ret |-> FALSE, w |-> w]
    ELSE DownloadAndInstallOcm(dry, Lower(w.os), Lower(w.machine), w)

\* EnvironmentManager.install_ocm_cli
InstallOcmCli(dry, w) ==
    IF CommandExists("ocm", w) THEN [ret |-> TRUE, w |-> w]
    ELSE LET os_name == Lower(w.os)
             arch == Lower(w.machine)
         IN  IF arch \notin {"x86_64", "amd64", "arm64", "aarch64"}
             THEN [ret |-> FALSE, w |-> w]
             ELSE IF os_name \notin {"darwin", "linux", "windows"}
             THEN [ret |-> FALSE, w |-> w]
             ELSE DownloadAndInstallOcm(dry, os_name,
                      IF arch \in {"x86_64", "amd64"} THEN "amd64" ELSE "arm64", w)

\* EnvironmentManager._get_install_hint
GetInstallHint(tool) ==
    CASE tool = "docker" -> "https://docs.docker.com/get-docker/"
      [] tool = "kubectl" -> "https://kubernetes.io/docs/tasks/tools/install-kubectl/"
      [] tool = "kind" -> "https://kind.sigs.k8s.io/docs/user/quick-start/#installation"
      [] tool = "curl" -> "Install curl using your system package manager"
      [] tool = "git" -> "https://git-scm.com/downloads"
      [] OTHER -> "Please install the tool manually"

\* setup_environment: the missing tools other than ocm, logged with their
\* hints inside the install_missing branch
MissingToolHints(install_missing, prerequisites) ==
    IF install_missing
    THEN {[tool |-> t, hint |-> GetInstallHint(t)] :
             t \in {k \in DOMAIN prerequisites : ~prerequisites[k] /\ k # "ocm"}}
    ELSE {}

\* faulty variant: a missing tool makes the setup fail
SetupRegistryAllTools(dry, install_missing, cfg, p, i) ==
    With(IF p.ret.docker THEN StartRegistry(dry, 0, "", cfg, i.w)
         ELSE [ret |-> TRUE, raised |-> "none", w |-> i.w],
         LAMBDA s :
            [ret |-> i.ret /\ s.ret /\ AllValues(p.ret), raised |-> s.raised,
             installer_called |-> install_missing /\ ~p.ret.ocm,
             installer_ok |-> i.ret,
             hinted |-> MissingToolHints(install_missing, p.ret),
             registry_called |-> p.ret.docker,
             registry_ok |-> s.ret, w |-> s.w])

\* setup_environment after the installer: the registry is started when
\* docker was reported available
SetupRegistry(dry, install_missing, cfg, p, i) ==
    With(IF p.ret.docker THEN StartRegistry(dry, 0, "", cfg, i.w)
         ELSE [ret |-> TRUE, raised |-> "none", w |-> i.w],
         LAMBDA s :
            [ret |-> i.ret /\ s.ret, raised |-> s.raised,
             installer_called |-> install_missing /\ ~p.ret.ocm,
             installer_ok |-> i.ret,
             hinted |-> MissingToolHints(install_missing, p.ret),
             registry_called |-> p.ret.docker,
             registry_ok |-> s.ret, w |-> s.w])

\* faulty variant: the installer runs whether or not it was requested
SetupEnvironmentAlwaysInstalls(dry, install_missing, cfg, w) ==
    With(CheckPrerequisites(dry, w), LAMBDA p :
         SetupRegistry(dry, install_missing, cfg, p,
                       IF ~p.ret.ocm
                       THEN InstallOcmCli(dry, p.w)
                       ELSE [ret |-> TRUE, w |-> p.w]))

\* EnvironmentManager.setup_environment
SetupEnvironment(dry, install_missing, cfg, w) ==
    With(CheckPrerequisites(dry, w), LAMBDA p :
         SetupRegistry(dry, install_missing, cfg, p,
                       IF install_missing /\ ~p.ret.ocm
                       THEN InstallOcmCli(dry, p.w)
                       ELSE [ret |-> TRUE, w |-> p.w]))

\* EnvironmentManager.cleanup_environment
CleanupEnvironment(dry, cfg, w) == StopRegistry(dry, "", cfg, w)

----------------------------------------------------------------------------
(* core/demo.py *)

\* A fault is an interrupt (KeyboardInterrupt) or another exception
\* (Exception) delivered while the program is in phase `at`, step `n`.
NoFault == [kind |-> "none", at |-> "", n |-> 0]

Hit(f, at, n) == f.kind # "none" /\ f.at = at /\ f.n = n

Returned(ret, faulted, w) ==
    [ret |-> ret, raised |-> "none", faulted |-> faulted, w |-> w]

Raised(kind, faulted, w) ==
    [ret |-> FALSE, raised |-> kind, faulted |-> faulted, w |-> w]

\* a message of the demo runner's logger: log_step of step n, or a line
\* about a script or the environment; seen is the number of commands
\* executed before the message
Emit(w, msg, arg, n) ==
    [w EXCEPT !.out = Append(@, [msg |-> msg, arg |-> arg, n |-> n,
                                 seen |-> Len(w.log)])]

\* the example scripts the five demo steps run, in order
DemoSteps ==
    << <<"01-basic/hello-world/create-component.sh">>,
       <<"02-transport/local-to-oci/transport-example.sh">>,
       <<"03-signing/basic-signing/sign-component.sh">>,
       <<"04-k8s-deployment/setup-cluster.sh",
         "04-k8s-deployment/ocm-k8s-toolkit/deploy-example.sh">>,
       <<"05-advanced/component-references/create-reference-example.sh",
         "05-advanced/localization/create-localization-example.sh">> >>

\* the example sets run_all_tests walks, in order
ExampleDirs ==
    <<"01-basic", "02-transport", "03-signing", "04-k8s-deployment", "05-advanced">>

\* the *.sh files in the sub-directories of each example set
SubScripts(dir) ==
    CASE dir = "01-basic" -> {DemoSteps[1][1]}
      [] dir = "02-transport" -> {DemoSteps[2][1]}
      [] dir = "03-signing" -> {DemoSteps[3][1]}
      [] dir = "04-k8s-deployment" -> {DemoSteps[4][2]}
      [] dir = "05-advanced" -> {DemoSteps[5][1], DemoSteps[5][2]}
      [] OTHER -> {}

RunExamples(dir) ==
    CASE dir = "01-basic" -> "01-basic/run-examples.sh"
      [] dir = "02-transport" -> "02-transport/run-examples.sh"
      [] dir = "03-signing" -> "03-signing/run-examples.sh"
      [] dir = "04-k8s-deployment" -> "04-k8s-deployment/run-examples.sh"
      [] dir = "05-advanced" -> "05-advanced/run-examples.sh"
      [] OTHER -> "run-examples.sh"

\* _run_bash_script after chmod: bash is run, the exit code decides
BashScript(path, w) ==
    With(Run(FALSE, Cmd("list", "bash", "script", path, 0), FALSE, "none", w),
         LAMBDA r : [ret |-> r.raised = "none" /\ r.returncode = 0, w |-> r.w])

\* DemoRunner._run_bash_script: its own runner is never in dry-run mode
RunBashScript(dry, path, w) ==
    IF dry THEN [ret |-> TRUE, w |-> Emit(w, "would_execute", path, 0)]
    ELSE With(Run(FALSE, Cmd("list", "chmod", "+x", path, 0), FALSE, "none", w),
              LAMBDA r : IF r.raised # "none" THEN [ret |-> FALSE, w |-> r.w]
                         ELSE BashScript(path, r.w))

\* DemoRunner._run_example_script
RunExampleScript(dry, path, w) ==
    IF path \notin w.scripts
    THEN [ret |-> FALSE, w |-> Emit(w, "script_not_found", path, 0)]
    ELSE RunBashScript(dry, path, w)

\* faulty variant: a step runs all its scripts whatever the first returned
RECURSIVE DemoStepRunningAll(_, _, _)
DemoStepRunningAll(dry, paths, w) ==
    IF paths = << >> THEN [ret |-> TRUE, w |-> w]
    ELSE With(RunExampleScript(dry, Head(paths), w), LAMBDA r :
         With(DemoStepRunningAll(dry, Tail(paths), r.w), LAMBDA t :
              [ret |-> r.ret /\ t.ret, w |-> t.w]))

\* a _demo_* step: its scripts in order, the next one only after a success
RECURSIVE DemoStep(_, _, _)
DemoStep(dry, paths, w) ==
    IF paths = << >> THEN [ret |-> TRUE, w |-> w]
    ELSE With(RunExampleScript(dry, Head(paths), w), LAMBDA r :
              IF r.ret THEN DemoStep(dry, Tail(paths), r.w) ELSE r)

\* faulty variant: the readiness of the environment is not consulted
CheckEnvironmentIgnored(dry, cfg, w) ==
    With(GetEnvironmentStatus(dry, cfg, w), LAMBDA st : [ret |-> TRUE, w |-> st.w])

\* DemoRunner._check_environment
CheckEnvironment(dry, cfg, w) ==
    With(GetEnvironmentStatus(dry, cfg, w), LAMBDA st :
         [ret |-> st.ret.ready,
          w |-> IF st.ret.ready THEN st.w
                ELSE Emit(st.w, "environment_not_ready", "", 0)])

\* the step loop of run_quick_demo from step i on: an interrupt inside the
\* try returns False, another exception ends the loop with success = False
RECURSIVE DemoLoop(_, _, _, _, _)
DemoLoop(dry, interactive, f, i, w) ==
    IF i > Len(DemoSteps) THEN Returned(TRUE, FALSE, w)
    ELSE IF Hit(f, "step", i) THEN Returned(FALSE, TRUE, Emit(w, "step", "", i))
    ELSE With(DemoStep(dry, DemoSteps[i], Emit(w, "step", "", i)), LAMBDA r :
              IF ~r.ret THEN Returned(FALSE, FALSE, r.w)
              ELSE IF interactive /\ i < Len(DemoSteps) /\ Hit(f, "pause", i)
              THEN Returned(FALSE, TRUE, r.w)
              ELSE DemoLoop(dry, interactive, f, i + 1, r.w))

\* run_quick_demo after the environment check
DemoTour(dry, interactive, f, w) ==
    With(DemoLoop(dry, interactive, f, 1, w), LAMBDA r :
         IF r.ret /\ Hit(f, "footer", 0) THEN Raised(f.kind, TRUE, r.w) ELSE r)

\* DemoRunner.run_quick_demo
RunQuickDemo(dry, interactive, f, cfg, w) ==
    IF Hit(f, "header", 0) THEN Raised(f.kind, TRUE, w)
    ELSE IF Hit(f, "check_environment", 0) THEN Raised(f.kind, TRUE, w)
    ELSE With(CheckEnvironment(dry, cfg, w), LAMBDA e :
              IF ~e.ret THEN Returned(FALSE, FALSE, e.w)
              ELSE DemoTour(dry, interactive, f, e.w))

\* the loop of _run_example_tests over the scripts of the sub-directories:
\* every script is run, one failure makes the result False
RECURSIVE RunEach(_, _, _, _)
RunEach(dry, paths, ok, w) ==
    IF paths = << >> THEN [ret |-> ok, w |-> w]
    ELSE With(RunBashScript(dry, Head(paths), w), LAMBDA r :
              RunEach(dry, Tail(paths), ok /\ r.ret, r.w))

\* DemoRunner._run_example_tests: iterdir() of a missing directory raises
RunExampleTests(dry, dir, w) ==
    IF RunExamples(dir) \in w.scripts
    THEN With(RunBashScript(dry, RunExamples(dir), w), LAMBDA r :
              Returned(r.ret, FALSE, r.w))
    ELSE IF dir \notin w.exampleDirs THEN Raised("FileNotFoundError", FALSE, w)
    ELSE With(RunEach(dry, SetToSeq(SubScripts(dir) \cap w.scripts), TRUE, w),
              LAMBDA r : Returned(r.ret, FALSE, r.w))

\* the loop of run_all_tests from example set i on; passed counts the sets
\* that passed
RECURSIVE TestLoop(_, _, _, _, _)
TestLoop(dry, f, i, passed, w) ==
    IF i > Len(ExampleDirs) THEN Returned(passed = Len(ExampleDirs), FALSE, w)
    ELSE IF Hit(f, "test", i) THEN Raised(f.kind, TRUE, w)
    ELSE With(RunExampleTests(dry, ExampleDirs[i], Emit(w, "testing", ExampleDirs[i], i)),
              LAMBDA r :
              IF r.raised # "none" THEN r
              ELSE TestLoop(dry, f, i + 1, IF r.ret THEN passed + 1 ELSE passed,
                            Emit(r.w, IF r.ret THEN "tests_passed" ELSE "tests_failed",
                                 ExampleDirs[i], i)))

\* DemoRunner.run_all_tests
RunAllTests(dry, f, cfg, w) ==
    IF Hit(f, "check_environment", 0) THEN Raised(f.kind, TRUE, w)
    ELSE With(CheckEnvironment(dry, cfg, w), LAMBDA e :
              IF ~e.ret THEN Returned(FALSE, FALSE, e.w)
              ELSE TestLoop(dry, f, 1, 0, e.w))

\* DemoRunner.run_specific_example
RunSpecificExample(dry, example_name, f, cfg, w) ==
    IF Hit(f, "check_environment", 0) THEN Raised(f.kind, TRUE, w)
    ELSE With(CheckEnvironment(dry, cfg, w), LAMBDA e :
              IF ~e.ret THEN Returned(FALSE, FALSE, e.w)
              ELSE IF example_name \notin e.w.exampleDirs \cup e.w.exampleFiles
              THEN Returned(FALSE, FALSE, e.w)
              ELSE IF Hit(f, "test", 1) THEN Raised(f.kind, TRUE, e.w)
              ELSE RunExampleTests(dry, example_name, e.w))

\* the characters of the entry names that occur under the examples root
Chars(name) ==
    CASE name = "01-basic" -> <<"0", "1", "-", "b", "a", "s", "i", "c">>
      [] name = "02-transport" ->
            <<"0", "2", "-", "t", "r", "a", "n", "s", "p", "o", "r", "t">>
      [] name = "03-signing" -> <<"0", "3", "-", "s", "i", "g", "n", "i", "n", "g">>
      [] name = "04-k8s-deployment" ->
            <<"0", "4", "-", "k", "8", "s", "-", "d", "e", "p", "l", "o", "y", "m", "e", "n", "t">>
      [] name = "05-advanced" -> <<"0", "5", "-", "a", "d", "v", "a", "n", "c", "e", "d">>
      [] name = "10-extra" -> <<"1", "0", "-", "e", "x", "t", "r", "a">>
      [] name = "Extras" -> <<"E", "x", "t", "r", "a", "s">>
      [] name = ".hidden" -> <<".", "h", "i", "d", "d", "e", "n">>
      [] name = "README.md" -> <<"R", "E", "A", "D", "M", "E", ".", "m", "d">>

\* those characters in code point order
Alphabet ==
    <<"-", ".", "0", "1", "2", "3", "4", "5", "8", "A", "D", "E", "M", "R",
      "a", "b", "c", "d", "e", "g", "h", "i", "k", "l", "m", "n", "o", "p",
      "r", "s", "t", "v", "x", "y">>

Ord(ch) == CHOOSE k \in DOMAIN Alphabet : Alphabet[k] = ch

\* a < b for two str values, as Python compares them
RECURSIVE StrLess(_, _)
StrLess(a, b) ==
    IF b = << >> THEN FALSE
    ELSE IF a = << >> THEN TRUE
    ELSE IF Head(a) # Head(b) THEN Ord(Head(a)) < Ord(Head(b))
    ELSE StrLess(Tail(a), Tail(b))

\* name.startswith('.')
StartsWithDot(name) == Chars(name) # << >> /\ Head(Chars(name)) = "."

\* the least name of a non-empty set
Least(names) ==
    CHOOSE x \in names : \A y \in names \ {x} : StrLess(Chars(x), Chars(y))

\* sorted(names)
RECURSIVE Sorted(_)
Sorted(names) ==
    IF names = {} THEN << >>
    ELSE With(Least(names), LAMBDA m : <<m>> \o Sorted(names \ {m}))

\* faulty variant: hidden directories are listed as well
ListAvailableExamplesWithHidden(w) ==
    IF ~w.examplesRoot THEN << >> ELSE Sorted(w.exampleDirs)

\* DemoRunner.list_available_examples
ListAvailableExamples(w) ==
    IF ~w.examplesRoot THEN << >>
    ELSE Sorted({d \in w.exampleDirs : ~StartsWithDot(d)})

\* DemoRunner.get_demo_status
GetDemoStatus(dry, cfg, w) ==
    With(GetEnvironmentStatus(dry, cfg, w), LAMBDA st :
         [ret |-> [environment |-> st.ret,
                   available_examples |-> ListAvailableExamples(st.w),
                   examples_count |-> Len(ListAvailableExamples(st.w)),
                   ready_for_demo |-> st.ret.ready],
          w |-> st.w])

----------------------------------------------------------------------------
(* cli/commands.py *)

NoExit == 0 - 1             \* no exit code: the call raised

Exit(code, faulted, cfg, w) ==
    [exit |-> code, raised |-> "none", faulted |-> faulted, cfg |-> cfg, w |-> w]

Throw(kind, faulted, cfg, w) ==
    [exit |-> NoExit, raised |-> kind, faulted |-> faulted, cfg |-> cfg, w |-> w]

\* `return 0 if success else 1` on the result of a runner operation
ExitOf(r, cfg) ==
    IF r.raised # "none" THEN Throw(r.raised, r.faulted, cfg, r.w)
    ELSE Exit(IF r.ret THEN 0 ELSE 1, r.faulted, cfg, r.w)

\* setup_command with --check-only, after setup_environment
SetupStatus(dry, f, cfg, w) ==
    IF Hit(f, "get_environment_status", 0) THEN Throw(f.kind, TRUE, cfg, w)
    ELSE With(GetEnvironmentStatus(dry, cfg, w), LAMBDA st :
              IF Hit(f, "print", 0) THEN Throw(f.kind, TRUE, cfg, st.w)
              ELSE Exit(IF st.ret.ready THEN 0 ELSE 1, FALSE, cfg, st.w))

\* faulty variant: with --check-only too the exit code is setup's result
SetupCommandTrustingSetup(args, f, cfg, w) ==
    IF Hit(f, "setup_environment", 0) THEN Throw(f.kind, TRUE, cfg, w)
    ELSE With(SetupEnvironment(args.dry_run, ~args.check_only, cfg, w), LAMBDA s :
              IF s.raised # "none" THEN Throw(s.raised, FALSE, cfg, s.w)
              ELSE Exit(IF s.ret THEN 0 ELSE 1, FALSE, cfg, s.w))

\* setup_command
SetupCommand(args, f, cfg, w) ==
    IF Hit(f, "setup_environment", 0) THEN Throw(f.kind, TRUE, cfg, w)
    ELSE With(SetupEnvironment(args.dry_run, ~args.check_only, cfg, w), LAMBDA s :
              IF s.raised # "none" THEN Throw(s.raised, FALSE, cfg, s.w)
              ELSE IF args.check_only THEN SetupStatus(args.dry_run, f, cfg, s.w)
              ELSE Exit(IF s.ret THEN 0 ELSE 1, FALSE, cfg, s.w))

\* demo_command
DemoCommand(args, f, cfg, w) ==
    IF args.example # ""
    THEN ExitOf(RunSpecificExample(args.dry_run, args.example, f, cfg, w), cfg)
    ELSE ExitOf(RunQuickDemo(args.dry_run, ~args.non_interactive, f, cfg, w), cfg)

\* test_command
TestCommand(args, f, cfg, w) ==
    IF args.example # ""
    THEN ExitOf(RunSpecificExample(args.dry_run, args.example, f, cfg, w), cfg)
    ELSE ExitOf(RunAllTests(args.dry_run, f, cfg, w), cfg)

\* list_command
ListCommand(args, f, cfg, w) ==
    IF Hit(f, "print", 0) THEN Throw(f.kind, TRUE, cfg, w)
    ELSE Exit(0, FALSE, cfg, w)

\* status_command
StatusCommand(args, f, cfg, w) ==
    IF Hit(f, "get_demo_status", 0) THEN Throw(f.kind, TRUE, cfg, w)
    ELSE With(GetDemoStatus(args.dry_run, cfg, w), LAMBDA st :
              IF Hit(f, "print", 0) THEN Throw(f.kind, TRUE, cfg, st.w)
              ELSE Exit(0, FALSE, cfg, st.w))

\* cleanup_command
CleanupCommand(args, f, cfg, w) ==
    IF Hit(f, "cleanup_environment", 0) THEN Throw(f.kind, TRUE, cfg, w)
    ELSE ExitOf([faulted |-> FALSE] @@ CleanupEnvironment(args.dry_run, cfg, w), cfg)

\* args.func(args) once the handler's objects are constructed
Dispatch(args, f, cfg, w) ==
    CASE args.command = "setup" -> SetupCommand(args, f, cfg, w)
      [] args.command = "demo" -> DemoCommand(args, f, cfg, w)
      [] args.command = "test" -> TestCommand(args, f, cfg, w)
      [] args.command = "list" -> ListCommand(args, f, cfg, w)
      [] args.command = "status" -> StatusCommand(args, f, cfg, w)
      [] args.command = "cleanup" -> CleanupCommand(args, f, cfg, w)

\* a handler: setup_logging, then the constructor of its manager or runner,
\* which loads the configuration, then the handler's work
Handler(args, f, cfg, w) ==
    IF Hit(f, "construct", 0) THEN Throw(f.kind, TRUE, cfg, w)
    ELSE With(GetConfig(cfg, w), LAMBDA g :
              IF g.raised # "none" THEN Throw(g.raised, FALSE, cfg, w)
              ELSE Dispatch(args, f, g.cfg, w))

\* the try/except of main around args.func(args)
MainCaught(r) ==
    CASE r.raised = "none" -> r
      [] r.raised = "KeyboardInterrupt" -> [r EXCEPT !.exit = InterruptCode, !.raised = "none"]
      [] OTHER -> [r EXCEPT !.exit = GenericFailure, !.raised = "none"]

\* faulty variant: main has no `except Exception`
MainWithoutCatchAll(args, f, cfg, w) ==
    IF args.command = "" THEN Exit(1, FALSE, cfg, w)
    ELSE With(Handler(args, f, cfg, w), LAMBDA r :
              IF r.raised = "KeyboardInterrupt" THEN MainCaught(r) ELSE r)

\* main, after parse_args
Main(args, f, cfg, w) ==
    IF args.command = "" THEN Exit(1, FALSE, cfg, w)
    ELSE MainCaught(Handler(args, f, cfg, w))

----------------------------------------------------------------------------
(* Worlds and the record of an invoked operation *)

MaxExitCode == 2            \* exit codes a generic program returns: 0..MaxExitCode

BaseWorld ==
    [path |-> {}, daemonUp |-> FALSE, ocmWorks |-> FALSE, runFails |-> FALSE,
     containers |-> {}, healthyAt |-> Never, exitCode |-> 0,
     now |-> 0, sleeps |-> 0, log |-> << >>, fx |-> {},
     os |-> "Linux", machine |-> "x86_64", online |-> FALSE,
     release |-> [tag_name |-> "v1", assets |-> << >>],
     pathDirs |-> {}, writableDirs |-> {},
     installed |-> {},
     environ |-> [v \in EnvVars |-> "unset"],
     scripts |-> {}, failingScripts |-> {}, exampleDirs |-> {},
     examplesRoot |-> TRUE, exampleFiles |-> {}, downloadCalls |-> << >>,
     moveFails |-> FALSE, downloaded |-> {},
     out |-> << >>]

\* the result of an operation without the world it leaves behind
Result(r) == [f \in DOMAIN r \ {"w"} |-> r[f]]

\* an operation starts with an empty log of executed commands
Fresh(w) ==
    [w EXCEPT !.log = << >>, !.fx = {}, !.out = << >>, !.downloadCalls = << >>,
              !.downloaded = {}]

Invoke(op, arg, r) ==
    /\ calls' = Append(calls, [op |-> op, arg |-> arg, res |-> Result(r),
                               before |-> Fresh(world), after |-> r.w])
    /\ world' = r.w
    /\ UNCHANGED <<dry_run, config>>

Last == calls[Len(calls)]

----------------------------------------------------------------------------
(* Specification of the process runner: one call on every input *)

RunnerWorlds ==
    {[BaseWorld EXCEPT !.path = p, !.exitCode = e, !.daemonUp = d] :
        p \in {{}, {"bash"}, {"docker"}, {"bash", "docker"}},
        e \in 0..MaxExitCode, d \in BOOLEAN}

RunnerCommands ==
    {Cmd(form, "bash", "script", "demo.sh", 0) : form \in {"str", "list"}}
        \cup {Cmd(form, "docker", "info", "", 0) : form \in {"str", "list"}}

InitRunner ==
    /\ world \in RunnerWorlds
    /\ dry_run \in BOOLEAN
    /\ config = DefaultConfig
    /\ calls = << >>

CallRun ==
    /\ calls = << >>
    /\ \E c \in RunnerCommands, check \in BOOLEAN, sh \in {"none", "true", "false"} :
          Invoke("run", [cmd |-> c, check |-> check, sh |-> sh],
                 Run(dry_run, c, check, sh, Fresh(world)))

CallRunWithOutput ==
    /\ calls = << >>
    /\ \E c \in RunnerCommands :
          Invoke("run_with_output", [cmd |-> c, check |-> FALSE, sh |-> "none"],
                 RunWithOutput(dry_run, c, Fresh(world)))

NextRunner == CallRun \/ CallRunWithOutput

SpecRunner == InitRunner /\ [][NextRunner]_vars

----------------------------------------------------------------------------
(* Claims about the process runner (SpecRunner) *)

\* C6: in dry-run mode run returns exit code 0 with empty stdout and stderr,
\* without raising, for every command and every value of check, and the
\* external program is never invoked (nothing is executed on the system).
C6_DryRunSynthetic ==
    \A i \in 1..Len(calls) :
        (calls[i].op = "run" /\ dry_run) =>
            /\ calls[i].res.raised = "none"
            /\ calls[i].res.returncode = 0
            /\ calls[i].res.stdout = NoLines
            /\ calls[i].res.stderr = NoLines
            /\ ~calls[i].res.invoked
            /\ world.log = << >>

\* a dry run of a strictly checked argument-list command whose program is
\* installed and would have failed
C6_Witness ==
    /\ calls # << >>
    /\ Last.op = "run" /\ dry_run
    /\ Last.arg.check /\ Last.arg.cmd.form = "list"
    /\ CommandExists(Last.arg.cmd.prog, world)
    /\ OsExec(Last.arg.cmd, Last.before).rc # 0

\* C7 (as claimed): whenever the program cannot be located, the exit code
\* reported to the caller is 127, by run (the returncode of its error or
\* result) and by run_with_output alike.
C7_NotFoundIs127 ==
    \A i \in 1..Len(calls) :
        (/\ calls[i].op \in {"run", "run_with_output"}
         /\ ~dry_run
         /\ ~CommandExists(calls[i].arg.cmd.prog, calls[i].before)) =>
            calls[i].res.returncode = NotFoundCode

\* C8: executing a program that is found, run raises iff check was requested
\* and the exit code is non-zero; with check=false it returns the program's
\* exit code and captured output without raising.
C8_RaisesIffStrict ==
    \A i \in 1..Len(calls) :
        (/\ calls[i].op = "run"
         /\ ~dry_run
         /\ CommandExists(calls[i].arg.cmd.prog, calls[i].before)) =>
            LET x == OsExec(calls[i].arg.cmd, calls[i].before) IN
            /\ (calls[i].res.raised # "none") <=> (calls[i].arg.check /\ x.rc # 0)
            /\ calls[i].res.returncode = x.rc
            /\ calls[i].res.stdout = x.out
            /\ calls[i].res.invoked

\* a found program returned a non-zero exit code under check=false
C8_Witness ==
    /\ calls # << >>
    /\ Last.op = "run" /\ ~dry_run /\ ~Last.arg.check
    /\ CommandExists(Last.arg.cmd.prog, Last.before)
    /\ Last.res.returncode # 0
    /\ Last.res.raised = "none"

----------------------------------------------------------------------------
(* Specification of the registry lifecycle controller: up to MaxCalls      *)
(* operations in succession on one engine                                  *)

RegistryContainerSets ==
    { {},
      {Container(DefaultName, DefaultPort, TRUE)},
      {Container(DefaultName, DefaultPort, FALSE)},
      {Container(OtherName, DefaultPort, TRUE)},
      {Container(OtherName, OtherPort, FALSE),
       Container(DefaultName, OtherPort, TRUE)} }

RegistryWorlds ==
    {[BaseWorld EXCEPT !.path = p, !.daemonUp = d, !.runFails = f,
                       !.containers = cs, !.healthyAt = h] :
        p \in {{"docker", "curl"}, {"docker"}, {"curl"}},
        d \in BOOLEAN, f \in BOOLEAN, cs \in RegistryContainerSets,
        h \in {0, MaxHealthAttempts - 1, MaxHealthAttempts, Never}}

InitRegistry ==
    /\ world \in RegistryWorlds
    /\ dry_run \in BOOLEAN
    /\ config = DefaultConfig
    /\ calls = << >>

\* port=None and name=None are modelled by 0 and ""
CallStartRegistry ==
    /\ Len(calls) < MaxCalls
    /\ \E port \in {0, OtherPort}, name \in {"", OtherName} :
          Invoke("start_registry", [port |-> port, name |-> name],
                 StartRegistry(dry_run, port, name, config, Fresh(world)))

CallStopRegistry ==
    /\ Len(calls) < MaxCalls
    /\ \E name \in {"", OtherName} :
          Invoke("stop_registry", [port |-> 0, name |-> name],
                 StopRegistry(dry_run, name, config, Fresh(world)))

NextRegistry == CallStartRegistry \/ CallStopRegistry

SpecRegistry == InitRegistry /\ [][NextRegistry]_vars

----------------------------------------------------------------------------
(* Claims about the registry lifecycle controller (SpecRegistry) *)

Probes(log) == SelectSeq(log, LAMBDA e : e.cmd.prog = "curl")

Destructive(log) ==
    SelectSeq(log, LAMBDA e : e.cmd.prog = "docker"
                              /\ e.cmd.verb \in {"rm", "rm_f", "run", "stop"})

Launched(log) ==
    \E k \in 1..Len(log) :
        log[k].cmd.prog = "docker" /\ log[k].cmd.verb = "run" /\ log[k].rc = 0

\* calls i-1 and i are start_registry with the same arguments
StartedTwice(i) ==
    /\ i > 1
    /\ calls[i].op = "start_registry"
    /\ calls[i - 1].op = "start_registry"
    /\ calls[i].arg = calls[i - 1].arg

\* C2 (as claimed): the second of two successive start_registry calls with
\* the same arguments observes the container running, returns success and
\* issues no destructive engine command.
C2_SecondStartIdempotent ==
    \A i \in 1..Len(calls) :
        StartedTwice(i) =>
            /\ calls[i].res.raised = "none"
            /\ calls[i].res.ret
            /\ Destructive(calls[i].after.log) = << >>

\* C2 (amended): in executing mode, when the first call found the named
\* container running or launched it, the second call issues the
\* running-container query alone, finds the container, returns success and
\* issues no destructive engine command.
C2_SecondStartIdempotentAfterLaunch ==
    \A i \in 1..Len(calls) :
        (/\ StartedTwice(i)
         /\ ~dry_run
         /\ \/ calls[i - 1].res.ret
            \/ Launched(calls[i - 1].after.log)) =>
            /\ calls[i].res.raised = "none"
            /\ calls[i].res.ret
            /\ Destructive(calls[i].after.log) = << >>
            /\ Len(calls[i].after.log) = 1
            /\ calls[i].after.log[1].cmd.verb = "ps"
            /\ calls[i].after.containers = calls[i].before.containers

\* the first call removed a stale container and launched a fresh one, the
\* second call found it
C2_Witness ==
    /\ Len(calls) >= 2
    /\ StartedTwice(2)
    /\ ~dry_run
    /\ Launched(calls[1].after.log)
    /\ Destructive(calls[1].after.log) # << >>
    /\ calls[2].res.ret

\* C3: when the health probe never succeeds, start_registry returns failure
\* after exactly 30 probes, one second apart, having slept 30 times; it
\* never probes more than 30 times.
C3_ThirtyProbes ==
    \A i \in 1..Len(calls) :
        calls[i].op = "start_registry" =>
            LET ps == Probes(calls[i].after.log) IN
            /\ Len(ps) <= MaxHealthAttempts
            /\ (/\ ps # << >>
                /\ \A k \in 1..Len(ps) : ~(ps[k].found /\ ps[k].rc = 0)) =>
                    /\ calls[i].res.raised = "none"
                    /\ ~calls[i].res.ret
                    /\ Len(ps) = MaxHealthAttempts
                    /\ \A k \in 1..Len(ps) :
                          ps[k].at = ps[1].at + (k - 1) * SleepSeconds
                    /\ calls[i].after.sleeps - calls[i].before.sleeps = MaxHealthAttempts
                    /\ calls[i].after.now - calls[i].before.now
                          = MaxHealthAttempts * SleepSeconds

\* a launched registry that was probed and never answered
C3_Witness ==
    /\ calls # << >>
    /\ Last.op = "start_registry"
    /\ Launched(Last.after.log)
    /\ Len(Probes(Last.after.log)) = MaxHealthAttempts
    /\ \A k \in 1..MaxHealthAttempts : Probes(Last.after.log)[k].rc # 0
    /\ ~Last.res.ret

----------------------------------------------------------------------------
(* Specification of the environment status: a call, then possibly a tool   *)
(* installed or removed and a second call                                  *)

\* the engine as the status operations can meet it: no CLI, a stopped
\* daemon, a running daemon without or with the registry container
StatusEngines ==
    { [docker |-> FALSE, up |-> FALSE, cs |-> {}],
      [docker |-> TRUE, up |-> FALSE, cs |-> {}],
      [docker |-> TRUE, up |-> TRUE, cs |-> {}],
      [docker |-> TRUE, up |-> TRUE, cs |-> {Container(DefaultName, DefaultPort, TRUE)}] }

StatusWorlds ==
    {[BaseWorld EXCEPT !.path = p \cup (IF e.docker THEN {"docker"} ELSE {}),
                       !.daemonUp = e.up, !.containers = e.cs,
                       !.ocmWorks = o, !.healthyAt = h] :
        p \in SUBSET (RequiredTools \ {"docker"}), e \in StatusEngines,
        o \in BOOLEAN, h \in {0, Never}}

InitStatus ==
    /\ world \in StatusWorlds
    /\ dry_run \in BOOLEAN
    /\ config = DefaultConfig
    /\ calls = << >>

\* a second call follows a change of the environment
MayCall == calls = << >> \/ (Len(calls) = 1 /\ world.path # Last.after.path)

CallCheckPrerequisites ==
    /\ MayCall
    /\ Invoke("check_prerequisites", [none |-> TRUE],
              CheckPrerequisites(dry_run, Fresh(world)))

CallGetEnvironmentStatus ==
    /\ MayCall
    /\ Invoke("get_environment_status", [none |-> TRUE],
              GetEnvironmentStatus(dry_run, config, Fresh(world)))

\* between two calls a tool is installed or removed by someone else
ToolChanges ==
    /\ Len(calls) = 1
    /\ world.path = Last.after.path
    /\ \E t \in RequiredTools \ {"docker"} :
          world' = [world EXCEPT !.path = IF t \in @ THEN @ \ {t} ELSE @ \cup {t}]
    /\ UNCHANGED <<dry_run, config, calls>>

\* the status subcommand, the configuration being loaded already
CallStatusCommand ==
    /\ calls = << >>
    /\ Invoke("status_command", [none |-> TRUE],
              StatusCommand([command |-> "status", dry_run |-> dry_run,
                             check_only |-> FALSE, example |-> "",
                             non_interactive |-> FALSE],
                            NoFault, config, Fresh(world)))

NextStatus ==
    \/ CallCheckPrerequisites
    \/ CallGetEnvironmentStatus
    \/ CallStatusCommand
    \/ ToolChanges

SpecStatus == InitStatus /\ [][NextStatus]_vars

----------------------------------------------------------------------------
(* Specification of setup and cleanup: one state-changing operation on     *)
(* every host                                                              *)

Asset(tag, os_name, arch, suffix) ==
    [tag |-> tag, os |-> os_name, arch |-> arch, suffix |-> suffix]

SetupReleases ==
    { [tag_name |-> "v1", assets |-> << >>],
      [tag_name |-> "v1",
       assets |-> <<Asset("v1", "linux", "amd64", ""),
                    Asset("v1", "darwin", "arm64", ""),
                    Asset("v1", "windows", "amd64", ".exe")>>] }

SetupHosts ==
    { [os |-> "Linux", machine |-> "x86_64"],
      [os |-> "Darwin", machine |-> "arm64"],
      [os |-> "Windows", machine |-> "AMD64"],
      [os |-> "Linux", machine |-> "riscv64"],
      [os |-> "FreeBSD", machine |-> "amd64"] }

SetupWorlds ==
    {[BaseWorld EXCEPT !.path = p, !.daemonUp = d, !.ocmWorks = TRUE,
                       !.containers = cs, !.healthyAt = hl,
                       !.os = h.os, !.machine = h.machine, !.online = n,
                       !.release = r, !.pathDirs = pd,
                       !.writableDirs = {"~/.local/bin", "~/bin"}] :
        p \in {RequiredTools, RequiredTools \ {"ocm"}, {"curl", "git"}},
        d \in BOOLEAN,
        cs \in {{}, {Container(OtherName, DefaultPort, TRUE)}},
        hl \in {0, Never},
        h \in SetupHosts, n \in BOOLEAN, r \in SetupReleases,
        pd \in {{}, {"~/bin", "/usr/local/bin"}}}

InitSetup ==
    /\ world \in SetupWorlds
    /\ dry_run \in BOOLEAN
    /\ config = DefaultConfig
    /\ calls = << >>

CallInstallOcmCli ==
    /\ calls = << >>
    /\ Invoke("install_ocm_cli", [none |-> TRUE], InstallOcmCli(dry_run, Fresh(world)))

CallSetupEnvironment ==
    /\ calls = << >>
    /\ \E install_missing \in BOOLEAN :
          Invoke("setup_environment", [install_missing |-> install_missing],
                 SetupEnvironment(dry_run, install_missing, config, Fresh(world)))

CallCleanupEnvironment ==
    /\ calls = << >>
    /\ Invoke("cleanup_environment", [none |-> TRUE],
              CleanupEnvironment(dry_run, config, Fresh(world)))

FirstStartRegistry == calls = << >> /\ CallStartRegistry

FirstStopRegistry == calls = << >> /\ CallStopRegistry

NextSetup ==
    \/ CallInstallOcmCli
    \/ CallSetupEnvironment
    \/ CallCleanupEnvironment
    \/ FirstStartRegistry
    \/ FirstStopRegistry

SpecSetup == InitSetup /\ [][NextSetup]_vars

----------------------------------------------------------------------------
(* Claims about the environment status (SpecStatus) *)

\* C1: get_environment_status reports ready exactly when all six
\* prerequisite values are true and the registry status says running;
\* healthy, docker_available and ocm_version play no part.
C1_ReadyIffAllAndRunning ==
    \A i \in 1..Len(calls) :
        calls[i].op = "get_environment_status" =>
            LET st == calls[i].res.ret IN
            st.ready <=> /\ st.prerequisites.docker /\ st.prerequisites.ocm
                         /\ st.prerequisites.curl /\ st.prerequisites.kubectl
                         /\ st.prerequisites.kind /\ st.prerequisites.git
                         /\ st.registry.running

\* every tool is available and the registry runs without answering its
\* health probe: the environment is ready all the same
C1_Witness ==
    /\ calls # << >>
    /\ Last.op = "get_environment_status"
    /\ Last.res.ret.ready
    /\ ~Last.res.ret.registry.healthy
    /\ \A t \in RequiredTools : Last.res.ret.prerequisites[t]

\* what a probe of tool t finds in world w
Probe(t, dry, w) ==
    CASE t = "docker" -> "docker" \in w.path /\ (dry \/ w.daemonUp)
      [] t = "ocm" -> "ocm" \in w.path /\ (dry \/ w.ocmWorks)
      [] OTHER -> t \in w.path

\* C5: check_prerequisites returns a mapping with exactly the six required
\* tool names as keys and a boolean for each, and every value is what a
\* probe of the system finds at the time of that call.
C5_SixFreshBooleans ==
    \A i \in 1..Len(calls) :
        calls[i].op = "check_prerequisites" =>
            /\ DOMAIN calls[i].res.ret = RequiredTools
            /\ \A t \in RequiredTools :
                  /\ calls[i].res.ret[t] \in BOOLEAN
                  /\ calls[i].res.ret[t] = Probe(t, dry_run, calls[i].before)

\* two calls with a tool installed or removed in between: the second result
\* differs from the first
C5_Witness ==
    /\ Len(calls) = 2
    /\ calls[1].op = "check_prerequisites"
    /\ calls[2].op = "check_prerequisites"
    /\ calls[1].res.ret # calls[2].res.ret

----------------------------------------------------------------------------
(* Claims about setup and cleanup (SpecSetup) *)

\* C4 (as claimed): in dry-run mode the installer, the registry start and
\* the registry stop leave the network, the file system and the container
\* engine untouched and return success.
C4_DryRunNoEffect ==
    \A i \in 1..Len(calls) :
        (dry_run /\ calls[i].op \in {"install_ocm_cli", "start_registry",
                                     "stop_registry"}) =>
            /\ calls[i].after.fx = {}
            /\ calls[i].after.log = << >>
            /\ calls[i].after.containers = calls[i].before.containers
            /\ calls[i].after.installed = calls[i].before.installed
            /\ calls[i].res.ret

----------------------------------------------------------------------------
(* Specification of the command line: one invocation of main on every
   subcommand, with and without a fault delivered while the handler runs *)

\* the files of an example set
Under(dir) ==
    SubScripts(dir) \cup {RunExamples(dir)}
        \cup (IF dir = ExampleDirs[4] THEN {DemoSteps[4][1]} ELSE {})

\* the scripts of the repository's examples directory
DemoScripts == UNION {Range(DemoSteps[i]) : i \in DOMAIN DemoSteps}

MainTrees ==
    { [present |-> DemoScripts, failing |-> {}],
      [present |-> DemoScripts \ {DemoSteps[2][1]}, failing |-> {}],
      [present |-> DemoScripts, failing |-> {DemoSteps[4][1]}],
      [present |-> DemoScripts, failing |-> {DemoSteps[5][2]}],
      [present |-> DemoScripts \cup {RunExamples(ExampleDirs[1])},
       failing |-> {DemoSteps[3][1]}] }

MainWorlds ==
    {[BaseWorld EXCEPT
        !.path = p, !.daemonUp = d, !.ocmWorks = TRUE, !.healthyAt = 0,
        !.containers = {Container(DefaultName, DefaultPort, TRUE)},
        !.environ = [@ EXCEPT !["OCM_DEMO_REGISTRY_PORT"] = port],
        !.exampleDirs = dirs,
        !.scripts = {x \in t.present : \E dir \in dirs : x \in Under(dir)},
        !.failingScripts = t.failing] :
        p \in {RequiredTools \cup {"bash", "chmod"},
               (RequiredTools \ {"kind"}) \cup {"bash", "chmod"}},
        d \in BOOLEAN,
        port \in {"unset", "5555", "abc"},
        dirs \in {Range(ExampleDirs), Range(ExampleDirs) \ {ExampleDirs[3]}},
        t \in MainTrees}

Commands == {"setup", "demo", "test", "list", "status", "cleanup"}

Args(command, check_only, example, non_interactive) ==
    [command |-> command, dry_run |-> dry_run, check_only |-> check_only,
     example |-> example, non_interactive |-> non_interactive]

\* the parsed command lines: "" is a command line without a subcommand
MainArgs ==
    {Args(c, FALSE, "", FALSE) : c \in {"", "list", "status", "cleanup"}}
        \cup {Args("setup", k, "", FALSE) : k \in BOOLEAN}
        \cup {Args("demo", FALSE, e, n) :
                e \in {"", ExampleDirs[1], ExampleDirs[3]}, n \in BOOLEAN}
        \cup {Args("test", FALSE, e, FALSE) : e \in {"", ExampleDirs[1], ExampleDirs[3]}}

Phases ==
    {<<at, 0>> : at \in {"construct", "setup_environment", "get_environment_status",
                         "print", "header", "check_environment", "footer",
                         "get_demo_status", "cleanup_environment"}}
        \cup {<<at, n>> : at \in {"step", "pause"}, n \in {1, Len(DemoSteps) - 1}}
        \cup {<<"test", n>> : n \in {1, 3}}

Faults ==
    {NoFault} \cup
    {[kind |-> k, at |-> ph[1], n |-> ph[2]] :
        k \in {"KeyboardInterrupt", "Exception"}, ph \in Phases}

InitMain ==
    /\ world \in MainWorlds
    /\ dry_run \in BOOLEAN
    /\ config = NoConfig
    /\ calls = << >>

\* the record of main's call; the loaded configuration stays in the process
InvokeMain(args, f, r) ==
    /\ calls' = Append(calls, [op |-> "main", arg |-> [args |-> args, fault |-> f],
                               res |-> Result(r),
                               before |-> Fresh(world), after |-> r.w])
    /\ world' = r.w
    /\ config' = r.cfg
    /\ UNCHANGED dry_run

CallMain ==
    /\ calls = << >>
    /\ \E args \in MainArgs, f \in Faults :
          InvokeMain(args, f, Main(args, f, config, Fresh(world)))

NextMain == CallMain

SpecMain == InitMain /\ [][NextMain]_vars

----------------------------------------------------------------------------
(* Claims about the command line *)

\* C9 (as stated): for every subcommand, a user interrupt raised at any point
\* while the handler runs makes main return 130, never 0 or 1.
C9_InterruptIs130 ==
    \A i \in DOMAIN calls :
        (/\ calls[i].op = "main"
         /\ calls[i].arg.fault.kind = "KeyboardInterrupt"
         /\ calls[i].res.faulted)
            => calls[i].res.exit = InterruptCode

\* C10: once the arguments are parsed, main lets no exception escape and
\* returns 0, 1 or 130; an exception other than a user interrupt raised while
\* the handler runs (a fault, or the ValueError of a non-numeric registry
\* port while the configuration is loaded) makes it return 1.
C10_NoExceptionEscapes ==
    \A i \in DOMAIN calls :
        calls[i].op = "main" =>
            /\ calls[i].res.raised = "none"
            /\ calls[i].res.exit \in {0, GenericFailure, InterruptCode}
            /\ (calls[i].arg.fault.kind = "Exception" /\ calls[i].res.faulted)
                  => calls[i].res.exit = GenericFailure
            /\ (/\ calls[i].arg.args.command # ""
                /\ ~calls[i].res.faulted
                /\ ~IsInt(GetEnv(calls[i].before.environ, "OCM_DEMO_REGISTRY_PORT", "5001")))
                  => calls[i].res.exit = GenericFailure

\* a handler whose configuration load raised ValueError, mapped to 1
C10_Witness ==
    \E i \in DOMAIN calls :
        /\ calls[i].op = "main"
        /\ calls[i].arg.args.command = "status"
        /\ calls[i].arg.fault = NoFault
        /\ calls[i].before.environ["OCM_DEMO_REGISTRY_PORT"] = "abc"
        /\ FromEnvironment(calls[i].before.environ).raised = "ValueError"
        /\ calls[i].res.exit = GenericFailure
        /\ calls[i].res.raised = "none"

----------------------------------------------------------------------------
(* Specification of the demo runner: one call of an entry point on every
   host, ready or not *)

DemoConfigs == {DefaultConfig, [DefaultConfig EXCEPT !.registry_name = ""]}

DemoWorlds == {w \in MainWorlds : w.environ["OCM_DEMO_REGISTRY_PORT"] = "unset"}

InitDemo ==
    /\ world \in DemoWorlds
    /\ dry_run \in BOOLEAN
    /\ config \in DemoConfigs
    /\ calls = << >>

\* a step function or the pause after it may raise while the tour runs
DemoFaults ==
    {NoFault} \cup
    {[kind |-> k, at |-> at, n |-> n] :
        k \in {"KeyboardInterrupt", "Exception"}, at \in {"step", "pause"},
        n \in {1, Len(DemoSteps) - 1, Len(DemoSteps)}}

CallRunQuickDemo ==
    /\ calls = << >>
    /\ \E interactive \in BOOLEAN, f \in DemoFaults :
          Invoke("run_quick_demo", [interactive |-> interactive, fault |-> f],
                 RunQuickDemo(dry_run, interactive, f, config, Fresh(world)))

CallRunAllTests ==
    /\ calls = << >>
    /\ Invoke("run_all_tests", [none |-> TRUE],
              RunAllTests(dry_run, NoFault, config, Fresh(world)))

CallRunSpecificExample ==
    /\ calls = << >>
    /\ \E example_name \in {ExampleDirs[1], ExampleDirs[3], "no-such-example"} :
          Invoke("run_specific_example", [example_name |-> example_name],
                 RunSpecificExample(dry_run, example_name, NoFault, config, Fresh(world)))

\* name=None is modelled by ""
CallIsRegistryRunning ==
    /\ calls = << >>
    /\ \E name \in {"", OtherName} :
          Invoke("is_registry_running", [name |-> name],
                 IsRegistryRunning(dry_run, name, config, Fresh(world)))

CallGetStatus ==
    /\ calls = << >>
    /\ Invoke("get_environment_status", [none |-> TRUE],
              GetEnvironmentStatus(dry_run, config, Fresh(world)))

\* main with the demo or the test subcommand
CallDemoMain ==
    /\ calls = << >>
    /\ \E c \in {"demo", "test"}, e \in {"", ExampleDirs[1]} :
          InvokeMain(Args(c, FALSE, e, TRUE), NoFault,
                     Main(Args(c, FALSE, e, TRUE), NoFault, config, Fresh(world)))

NextDemo ==
    \/ CallRunQuickDemo
    \/ CallRunAllTests
    \/ CallRunSpecificExample
    \/ CallIsRegistryRunning
    \/ CallGetStatus
    \/ CallDemoMain

SpecDemo == InitDemo /\ [][NextDemo]_vars

----------------------------------------------------------------------------
(* Claims about the demo runner *)

EntryPoints == {"run_quick_demo", "run_all_tests", "run_specific_example"}

\* the logged commands that run or prepare an example script
ScriptRuns(log) == SelectSeq(log, LAMBDA e : e.cmd.prog \in {"bash", "chmod"})

\* the running-container queries, one per readiness check
ReadinessQueries(log) ==
    SelectSeq(log, LAMBDA e : e.cmd.prog = "docker" /\ e.cmd.verb = "ps")

Messages(out, kinds) == SelectSeq(out, LAMBDA m : m.msg \in kinds)

\* the readiness of the host an entry point was called on
ReadyBefore(c) == GetEnvironmentStatus(dry_run, config, c.before).ret.ready

\* C11: every demo entry point checks the readiness of the environment
\* exactly once, before any script is run, and on an environment that is not
\* ready it returns False without running a demo step or an example script.
C11_CheckOnceThenRefuse ==
    \A i \in DOMAIN calls :
        calls[i].op \in EntryPoints =>
            /\ ~dry_run => Len(ReadinessQueries(calls[i].after.log)) = 1
            /\ \A k \in DOMAIN calls[i].after.log :
                  calls[i].after.log[k].cmd.prog \in {"bash", "chmod"} =>
                      \E j \in 1..(k - 1) :
                          /\ calls[i].after.log[j].cmd.prog = "docker"
                          /\ calls[i].after.log[j].cmd.verb = "ps"
            /\ ~ReadyBefore(calls[i]) =>
                  /\ calls[i].res.ret = FALSE
                  /\ calls[i].res.raised = "none"
                  /\ ScriptRuns(calls[i].after.log) = << >>
                  /\ Len(Messages(calls[i].after.out, {"environment_not_ready"})) = 1
                  /\ Messages(calls[i].after.out,
                              {"step", "would_execute", "script_not_found"}) = << >>

\* an entry point refused on a host whose container engine is down, after
\* one readiness check
C11_Witness ==
    \E i \in DOMAIN calls :
        /\ calls[i].op = "run_all_tests"
        /\ ~dry_run
        /\ ~calls[i].before.daemonUp
        /\ ~ReadyBefore(calls[i])
        /\ calls[i].res.ret = FALSE
        /\ Len(ReadinessQueries(calls[i].after.log)) = 1
        /\ ScriptRuns(calls[i].after.log) = << >>

----------------------------------------------------------------------------
(* Claims about the environment setup *)

\* C12: setup_environment returns False exactly when the installer was
\* attempted (install_missing, ocm reported unavailable) and failed, or the
\* registry start was attempted (docker reported available) and failed;
\* missing tools, a missing container engine included, do not make it fail.
C12_SetupFailsIffAttemptedStepFailed ==
    \A i \in DOMAIN calls :
        calls[i].op = "setup_environment" =>
            /\ calls[i].res.raised = "none"
            /\ calls[i].res.installer_called
                  <=> (calls[i].arg.install_missing
                       /\ ~CheckOcmAvailable(dry_run, calls[i].before).ret)
            /\ calls[i].res.registry_called
                  <=> CheckDockerAvailable(dry_run, calls[i].before).ret
            /\ (calls[i].res.ret = FALSE)
                  <=> \/ calls[i].res.installer_called /\ ~calls[i].res.installer_ok
                      \/ calls[i].res.registry_called /\ ~calls[i].res.registry_ok

\* a host without docker, kubectl, kind and ocm, set up without installing:
\* nothing is attempted and the setup succeeds
C12_Witness ==
    \E i \in DOMAIN calls :
        /\ calls[i].op = "setup_environment"
        /\ ~calls[i].arg.install_missing
        /\ calls[i].before.path = {"curl", "git"}
        /\ ~calls[i].res.installer_called
        /\ ~calls[i].res.registry_called
        /\ calls[i].res.ret = TRUE

\* the tools other than ocm that check_prerequisites reports missing
OtherMissing(c) ==
    {t \in RequiredTools \ {"ocm"} : ~CheckPrerequisites(dry_run, c.before).ret[t]}

\* the installer is invoked only for ocm and only on request: without
\* install_missing, or with ocm available, nothing is downloaded or placed,
\* and no setup runs a program other than the engine, the probe and ocm
InstallerOnlyForOcm(c) ==
    /\ c.res.installer_called
          <=> (c.arg.install_missing /\ ~CheckOcmAvailable(dry_run, c.before).ret)
    /\ ~c.res.installer_called =>
          /\ c.after.fx = {}
          /\ c.after.installed = c.before.installed
    /\ \A k \in DOMAIN c.after.log : c.after.log[k].cmd.prog \in {"docker", "curl", "ocm"}
    /\ c.after.path \ c.before.path \subseteq {"ocm"}
    /\ \A h \in c.res.hinted :
          h.tool \in OtherMissing(c) /\ h.hint = GetInstallHint(h.tool)

\* C13 (as stated): the installer is invoked only for ocm, only when
\* install_missing is true and ocm was reported unavailable; every other
\* missing tool is listed with its manual-install hint and never installed.
C13_OthersListedNeverInstalled ==
    \A i \in DOMAIN calls :
        calls[i].op = "setup_environment" =>
            /\ InstallerOnlyForOcm(calls[i])
            /\ {h.tool : h \in calls[i].res.hinted} = OtherMissing(calls[i])

\* C13 (amended): as above, but the other missing tools are listed only when
\* install_missing is true; without it setup_environment lists none.
C13_OthersListedOnRequestNeverInstalled ==
    \A i \in DOMAIN calls :
        calls[i].op = "setup_environment" =>
            /\ InstallerOnlyForOcm(calls[i])
            /\ {h.tool : h \in calls[i].res.hinted}
                  = IF calls[i].arg.install_missing THEN OtherMissing(calls[i]) ELSE {}

\* a setup that installs ocm and lists the missing docker, kubectl and kind
C13_Witness ==
    \E i \in DOMAIN calls :
        /\ calls[i].op = "setup_environment"
        /\ calls[i].arg.install_missing
        /\ calls[i].before.path = {"curl", "git"}
        /\ calls[i].res.installer_called
        /\ {h.tool : h \in calls[i].res.hinted} = {"docker", "kubectl", "kind"}
        /\ "net_download" \in calls[i].after.fx

----------------------------------------------------------------------------
(* Claims about the registry teardown *)

\* the engine commands of a log, as <<verb, name>> pairs in order
EngineCommands(log) ==
    [k \in DOMAIN log |-> <<log[k].cmd.prog, log[k].cmd.verb, log[k].cmd.name>>]

\* C14: stop_registry issues a stop and then a remove against the named
\* container; a non-zero exit code of either does not change the result, and
\* it returns True iff no exception surfaced from those invocations (an
\* exception of the stop ends the call before the remove).
C14_StopBestEffort ==
    \A i \in DOMAIN calls :
        (calls[i].op = "stop_registry" /\ ~dry_run) =>
            LET name == OrName(calls[i].arg.name, config.registry_name)
                log == calls[i].after.log
            IN  /\ calls[i].res.raised = "none"
                /\ "docker" \in calls[i].before.path =>
                      /\ EngineCommands(log) = << <<"docker", "stop", name>>,
                                                  <<"docker", "rm", name>> >>
                      /\ calls[i].res.ret = TRUE
                /\ "docker" \notin calls[i].before.path =>
                      /\ EngineCommands(log) = << <<"docker", "stop", name>> >>
                      /\ calls[i].res.ret = FALSE
                /\ calls[i].res.ret <=> \A k \in DOMAIN log : log[k].found

\* a stop against a daemon that is down: both commands exit non-zero and the
\* call still returns True
C14_Witness ==
    \E i \in DOMAIN calls :
        /\ calls[i].op = "stop_registry"
        /\ ~dry_run
        /\ Len(calls[i].after.log) = 2
        /\ calls[i].after.log[1].rc # 0
        /\ calls[i].after.log[2].rc # 0
        /\ calls[i].after.log[1].cmd.verb = "stop"
        /\ calls[i].after.log[2].cmd.verb = "rm"
        /\ calls[i].res.ret = TRUE

----------------------------------------------------------------------------
(* Claims about the status report *)

\* the commands that only query: engine info, running-container list, CLI
\* version, health probe
Queries ==
    {<<"docker", "info">>, <<"docker", "ps">>, <<"ocm", "version">>, <<"curl", "health">>}

\* C15: get_environment_status, and the status subcommand built on it, is a
\* pure read: it issues only query commands, never a container run, stop or
\* remove, never the installer, never a file write, and leaves the engine and
\* the file system as they were.
C15_StatusIsPureRead ==
    \A i \in DOMAIN calls :
        calls[i].op \in {"get_environment_status", "status_command"} =>
            /\ \A k \in DOMAIN calls[i].after.log :
                  <<calls[i].after.log[k].cmd.prog, calls[i].after.log[k].cmd.verb>> \in Queries
            /\ calls[i].after.fx = {}
            /\ calls[i].after.containers = calls[i].before.containers
            /\ calls[i].after.installed = calls[i].before.installed
            /\ calls[i].after.path = calls[i].before.path
            /\ calls[i].after.scripts = calls[i].before.scripts
            /\ calls[i].after.now = calls[i].before.now

\* a status call on a fully equipped host with a running registry: all four
\* queries were issued and the container is still there
C15_Witness ==
    \E i \in DOMAIN calls :
        /\ calls[i].op = "get_environment_status"
        /\ ~dry_run
        /\ calls[i].res.ret.ready
        /\ {<<calls[i].after.log[k].cmd.prog, calls[i].after.log[k].cmd.verb>> :
               k \in DOMAIN calls[i].after.log} = Queries
        /\ calls[i].before.containers # {}
        /\ calls[i].after.containers = calls[i].before.containers

----------------------------------------------------------------------------
(* Specification of the configuration singleton: get_config and set_config
   called in any order while the environment variables change *)

ConfigEnvirons ==
    {[BaseWorld.environ EXCEPT !["OCM_DEMO_REGISTRY_PORT"] = port,
                               !["OCM_DEMO_CLUSTER_NAME"] = cluster,
                               !["OCM_DEMO_DURATION"] = duration] :
        port \in {"unset", "5555", "abc"},
        cluster \in {"unset", "test-cluster"},
        duration \in {"unset", "60"}}

\* the Config instances handed to set_config; NoConfig is None
GivenConfigs ==
    {NoConfig, DefaultConfig,
     [DefaultConfig EXCEPT !.registry_host = "example.com", !.registry_port = 5002]}

InitConfig ==
    /\ world \in {[BaseWorld EXCEPT !.environ = e] : e \in ConfigEnvirons}
    /\ dry_run = FALSE
    /\ config = NoConfig
    /\ calls = << >>

\* the record of a call on the singleton: `was` is _config before the call,
\* `cfg` is _config after it, `ret` what the call returned
InvokeConfig(op, arg, r) ==
    /\ calls' = Append(calls, [op |-> op, arg |-> arg,
                               res |-> [raised |-> r.raised, ret |-> r.cfg,
                                        was |-> config,
                                        cfg |-> IF r.raised = "none" THEN r.cfg ELSE config],
                               before |-> Fresh(world), after |-> Fresh(world)])
    /\ config' = IF r.raised = "none" THEN r.cfg ELSE config
    /\ UNCHANGED <<world, dry_run>>

CallGetConfig ==
    /\ Len(calls) < MaxCalls
    /\ InvokeConfig("get_config", [none |-> TRUE], GetConfig(config, world))

CallSetConfig ==
    /\ Len(calls) < MaxCalls
    /\ \E new \in GivenConfigs :
          InvokeConfig("set_config", [config |-> new], SetConfig(new, config, world))

\* os.environ is changed between two calls
EnvironChanges ==
    /\ Len(calls) < MaxCalls
    /\ \E e \in ConfigEnvirons \ {world.environ} :
          world' = [world EXCEPT !.environ = e]
    /\ UNCHANGED <<dry_run, config, calls>>

NextConfig == CallGetConfig \/ CallSetConfig \/ EnvironChanges

SpecConfig == InitConfig /\ [][NextConfig]_vars

----------------------------------------------------------------------------
(* Claims about the configuration *)

Loads(i) == calls[i].op = "get_config" /\ calls[i].res.raised = "none"

\* C16 (as stated): the singleton is written at most once, at the first read;
\* every later get_config returns that same record, whatever the environment
\* variables have become.
C16_WrittenOnce ==
    /\ Cardinality({i \in DOMAIN calls : calls[i].res.cfg # calls[i].res.was}) <= 1
    /\ \A i \in DOMAIN calls :
          calls[i].res.cfg # calls[i].res.was =>
              calls[i].op = "get_config" /\ calls[i].res.was = NoConfig
    /\ \A i, j \in DOMAIN calls :
          (i < j /\ Loads(i) /\ Loads(j)) => calls[j].res.ret = calls[i].res.ret

\* C16 (amended): get_config writes the singleton only when it is unset, and
\* two get_config calls with no set_config between them return the same
\* record whatever the environment variables have become; set_config
\* replaces the singleton at any time.
C16_WrittenOnceUnlessSet ==
    /\ \A i \in DOMAIN calls :
          (calls[i].op = "get_config" /\ calls[i].res.cfg # calls[i].res.was) =>
              calls[i].res.was = NoConfig
    /\ \A i \in DOMAIN calls :
          calls[i].op = "set_config" => calls[i].res.cfg = calls[i].arg.config
    /\ \A i, j \in DOMAIN calls :
          (/\ i < j /\ Loads(i) /\ Loads(j)
           /\ \A k \in (i + 1)..(j - 1) : calls[k].op # "set_config")
              => calls[j].res.ret = calls[i].res.ret

\* two reads around a change of the environment: the second returns the
\* record of the first, not what the environment now says
C16_Witness ==
    \E i, j \in DOMAIN calls :
        /\ i < j /\ Loads(i) /\ Loads(j)
        /\ calls[i].before.environ # calls[j].before.environ
        /\ FromEnvironment(calls[j].before.environ).raised = "none"
        /\ FromEnvironment(calls[j].before.environ).cfg # calls[j].res.ret
        /\ calls[j].res.ret = calls[i].res.ret

----------------------------------------------------------------------------
(* Specification of the configuration loader: Config.from_environment on
   every combination of set and unset variables *)

\* the value each variable is given when it is set
Override(var) ==
    CASE var = "OCM_DEMO_REGISTRY_PORT" -> {"5555", "abc"}
      [] var = "OCM_DEMO_REGISTRY_NAME" -> {"my-registry", ""}
      [] var = "OCM_DEMO_REGISTRY_HOST" -> {"example.com"}
      [] var = "OCM_DEMO_CLUSTER_NAME" -> {"test-cluster"}
      [] var = "OCM_DEMO_NAMESPACE" -> {"test-ns"}
      [] var = "OCM_DEMO_DURATION" -> {"60"}
      [] var = "OCM_DEMO_PROJECT_ROOT" -> {"/srv/demo"}

\* every subset of the variables set, the others unset
LoaderEnvirons ==
    {[v \in EnvVars |->
        IF v \notin S THEN "unset"
        ELSE IF v = "OCM_DEMO_REGISTRY_PORT" THEN port
        ELSE IF v = "OCM_DEMO_REGISTRY_NAME" THEN name
        ELSE CHOOSE x \in Override(v) : TRUE] :
        S \in SUBSET EnvVars,
        port \in Override("OCM_DEMO_REGISTRY_PORT"),
        name \in Override("OCM_DEMO_REGISTRY_NAME")}

InitLoader ==
    /\ world \in {[BaseWorld EXCEPT !.environ = e] : e \in LoaderEnvirons}
    /\ dry_run = FALSE
    /\ config = NoConfig
    /\ calls = << >>

CallFromEnvironment ==
    /\ calls = << >>
    /\ Invoke("from_environment", [none |-> TRUE],
              With(FromEnvironment(world.environ), LAMBDA r :
                   [raised |-> r.raised, ret |-> r.cfg, w |-> Fresh(world)]))

NextLoader == CallFromEnvironment

SpecLoader == InitLoader /\ [][NextLoader]_vars

----------------------------------------------------------------------------
(* Claims about the configuration loader *)

\* the field each variable overrides
FieldOf(var) ==
    CASE var = "OCM_DEMO_REGISTRY_PORT" -> "registry_port"
      [] var = "OCM_DEMO_REGISTRY_NAME" -> "registry_name"
      [] var = "OCM_DEMO_REGISTRY_HOST" -> "registry_host"
      [] var = "OCM_DEMO_CLUSTER_NAME" -> "cluster_name"
      [] var = "OCM_DEMO_NAMESPACE" -> "namespace"
      [] var = "OCM_DEMO_DURATION" -> "demo_duration"
      [] var = "OCM_DEMO_PROJECT_ROOT" -> "project_root"

IntVars == {"OCM_DEMO_REGISTRY_PORT", "OCM_DEMO_DURATION"}

\* the documented defaults; an absent project_root is "None"
Documented ==
    [registry_port |-> 5001, registry_name |-> "local-registry",
     registry_host |-> "localhost", cluster_name |-> "ocm-demo",
     namespace |-> "ocm-demos", demo_duration |-> 300, project_root |-> "None"]

\* C17: from_environment sets each field to its variable's value when the
\* variable is set (port and duration parsed as integers) and to the
\* documented default otherwise; an override of one field changes no other.
C17_OverrideOrDefault ==
    \A i \in DOMAIN calls :
        calls[i].op = "from_environment" =>
            LET env == calls[i].before.environ
                ret == calls[i].res.ret
            IN  /\ calls[i].res.raised = "ValueError"
                      <=> \E v \in IntVars : env[v] # "unset" /\ ~IsInt(env[v])
                /\ calls[i].res.raised = "none" =>
                      /\ DOMAIN ret = DOMAIN Documented
                      /\ \A v \in EnvVars :
                            ret[FieldOf(v)] =
                                IF env[v] = "unset" THEN Documented[FieldOf(v)]
                                ELSE IF v \in IntVars THEN ParseInt(env[v])
                                ELSE env[v]
                      /\ \A v \in EnvVars :
                            LET without == FromEnvironment([env EXCEPT ![v] = "unset"])
                            IN  /\ without.raised = "none"
                                /\ \A u \in EnvVars \ {v} :
                                      without.cfg[FieldOf(u)] = ret[FieldOf(u)]
                                /\ without.cfg[FieldOf(v)] = Documented[FieldOf(v)]

\* port 5555 and cluster name test-cluster overridden, the rest at defaults
C17_Witness ==
    \E i \in DOMAIN calls :
        /\ calls[i].op = "from_environment"
        /\ {v \in EnvVars : calls[i].before.environ[v] # "unset"}
              = {"OCM_DEMO_REGISTRY_PORT", "OCM_DEMO_CLUSTER_NAME"}
        /\ calls[i].before.environ["OCM_DEMO_REGISTRY_PORT"] = "5555"
        /\ calls[i].res.raised = "none"
        /\ calls[i].res.ret =
              [Documented EXCEPT !.registry_port = 5555, !.cluster_name = "test-cluster"]

----------------------------------------------------------------------------
(* Specification of the example listing: list_available_examples on every
   content of the examples root *)

\* a root that is missing, or one holding directories and possibly a file
ExampleRoots ==
    {[exists |-> FALSE, dirs |-> {}, files |-> {}]} \cup
    {[exists |-> TRUE, dirs |-> d, files |-> f] :
        d \in SUBSET {"01-basic", "02-transport", "05-advanced", "10-extra",
                      "Extras", ".hidden"},
        f \in {{}, {"README.md"}}}

InitExamples ==
    /\ world \in {[BaseWorld EXCEPT !.examplesRoot = r.exists, !.exampleDirs = r.dirs,
                                    !.exampleFiles = r.files] : r \in ExampleRoots}
    /\ dry_run \in BOOLEAN
    /\ config = DefaultConfig
    /\ calls = << >>

CallListAvailableExamples ==
    /\ calls = << >>
    /\ Invoke("list_available_examples", [none |-> TRUE],
              [ret |-> ListAvailableExamples(Fresh(world)), w |-> Fresh(world)])

NextExamples == CallListAvailableExamples

SpecExamples == InitExamples /\ [][NextExamples]_vars

----------------------------------------------------------------------------
(* Claims about the example listing *)

\* C18: list_available_examples returns exactly the names of the directories
\* directly under the examples root whose name does not begin with '.',
\* sorted ascending without duplicates; files and hidden directories are
\* left out and a missing root gives the empty list.
C18_VisibleDirectoriesSorted ==
    \A i \in DOMAIN calls :
        calls[i].op = "list_available_examples" =>
            LET ret == calls[i].res.ret
                root == calls[i].before
            IN  /\ Range(ret) = {d \in root.exampleDirs : Head(Chars(d)) # "."}
                /\ Range(ret) \cap root.exampleFiles = {}
                /\ \A j, k \in DOMAIN ret :
                      j < k => StrLess(Chars(ret[j]), Chars(ret[k]))
                /\ ~root.examplesRoot => ret = << >>

\* a root with a hidden directory, a file and four visible directories, one
\* of them capitalised: digits sort before capitals
C18_Witness ==
    \E i \in DOMAIN calls :
        /\ calls[i].op = "list_available_examples"
        /\ calls[i].before.exampleDirs
              = {"01-basic", "02-transport", "10-extra", "Extras", ".hidden"}
        /\ calls[i].before.exampleFiles = {"README.md"}
        /\ calls[i].res.ret = <<"01-basic", "02-transport", "10-extra", "Extras">>

----------------------------------------------------------------------------
(* Specification of the registry address: the configuration's registry_url
   and the url of the registry status, on every configured host and port *)

UrlConfigs ==
    {[DefaultConfig EXCEPT !.registry_host = h, !.registry_port = p] :
        h \in {"localhost", "example.com", "registry.internal"},
        p \in {DefaultPort, 8080, 80}}

UrlWorlds ==
    {[BaseWorld EXCEPT !.path = p, !.daemonUp = d, !.containers = cs, !.healthyAt = h] :
        p \in {{"docker", "curl"}, {"curl"}}, d \in BOOLEAN, h \in {0, Never},
        cs \in {{}, {Container(DefaultName, DefaultPort, TRUE)}}}

InitUrl ==
    /\ world \in UrlWorlds
    /\ dry_run \in BOOLEAN
    /\ config \in UrlConfigs
    /\ calls = << >>

CallRegistryUrl ==
    /\ calls = << >>
    /\ Invoke("registry_url", [none |-> TRUE],
              [ret |-> RegistryUrl(config), w |-> Fresh(world)])

CallGetRegistryStatus ==
    /\ calls = << >>
    /\ Invoke("get_registry_status", [none |-> TRUE],
              GetRegistryStatus(dry_run, config, Fresh(world)))

\* port=None is modelled by 0
CallIsRegistryHealthy ==
    /\ calls = << >>
    /\ \E port \in {0, 8080} :
          Invoke("is_registry_healthy", [port |-> port],
                 IsRegistryHealthy(dry_run, port, config, Fresh(world)))

NextUrl == CallRegistryUrl \/ CallGetRegistryStatus \/ CallIsRegistryHealthy

SpecUrl == InitUrl /\ [][NextUrl]_vars

----------------------------------------------------------------------------
(* Claims about the registry address *)

\* the decimal numeral of the ports configured
Decimal(port) ==
    CASE port = 5001 -> "5001" [] port = 8080 -> "8080" [] port = 80 -> "80"

\* C19 (as stated): the configuration's registry URL is host, colon and
\* decimal port, without scheme or path, and the URL in the registry status
\* is composed from the same configured host and port.
C19_UrlFromConfiguredHostAndPort ==
    \A i \in DOMAIN calls :
        /\ calls[i].op = "registry_url" =>
              calls[i].res.ret = config.registry_host \o ":" \o Decimal(config.registry_port)
        /\ calls[i].op = "get_registry_status" =>
              \E scheme \in {"", "http://", "https://"} :
                  calls[i].res.ret.url =
                      scheme \o config.registry_host \o ":" \o Decimal(config.registry_port)

\* C26 (as claimed): the health check probes the endpoint at
\* http://<host>:<port> built from the configured registry host and the
\* effective port, reports healthy iff that probe gets a successful
\* response, and the status record's URL names the same host.
C26_ProbeAtConfiguredHost ==
    \A i \in DOMAIN calls :
        /\ (calls[i].op = "is_registry_healthy" /\ ~dry_run) =>
              LET ps == Probes(calls[i].after.log) IN
              /\ Len(ps) = 1
              /\ ps[1].cmd.name = config.registry_host
              /\ ps[1].cmd.port = OrPort(calls[i].arg.port, config.registry_port)
              /\ calls[i].res.ret <=> (ps[1].found /\ ps[1].rc = 0)
        /\ (calls[i].op = "get_registry_status" /\ ~dry_run) =>
              LET ps == Probes(calls[i].after.log) IN
              /\ Len(ps) = 1
              /\ ps[1].cmd.name = config.registry_host
              /\ calls[i].res.ret.url =
                    "http://" \o ps[1].cmd.name \o ":" \o Decimal(config.registry_port)
              /\ calls[i].res.ret.healthy <=> (ps[1].found /\ ps[1].rc = 0)

\* what does hold: the probe goes to localhost on the effective port
\* whatever host is configured, the status URL names localhost too, and the
\* reported health is the outcome of that probe
ProbeAtLocalhost ==
    \A i \in DOMAIN calls :
        (calls[i].op \in {"is_registry_healthy", "get_registry_status"} /\ ~dry_run) =>
            LET ps == Probes(calls[i].after.log) IN
            /\ Len(ps) = 1
            /\ ps[1].cmd.name = "localhost"
            /\ ps[1].cmd.port = (IF calls[i].op = "is_registry_healthy"
                                 THEN OrPort(calls[i].arg.port, config.registry_port)
                                 ELSE config.registry_port)

----------------------------------------------------------------------------
(* Specification of the CLI installer's platform detection: install_ocm_cli
   on every host operating system and architecture *)

\* releases as the metadata endpoint may publish them: none, binaries only,
\* a checksum file listed before its binary, an archive only, another
\* platform only, assets named after another version
InstallerReleases ==
    SetupReleases \cup
    { [tag_name |-> "v1",
       assets |-> <<Asset("v1", "linux", "amd64", ".sha256"),
                    Asset("v1", "linux", "amd64", ""),
                    Asset("v1", "windows", "amd64", ".exe.sha256"),
                    Asset("v1", "windows", "amd64", ".exe")>>],
      [tag_name |-> "v1", assets |-> <<Asset("v1", "linux", "arm64", ".tar.gz")>>],
      [tag_name |-> "v1", assets |-> <<Asset("v1", "darwin", "amd64", "")>>],
      [tag_name |-> "v2", assets |-> <<Asset("v1", "linux", "amd64", ""),
                                       Asset("v1", "darwin", "arm64", "")>>] }

InstallerWorlds ==
    {[BaseWorld EXCEPT !.path = p, !.os = o, !.machine = m, !.online = n,
                       !.release = r, !.pathDirs = pd, !.moveFails = mf,
                       !.writableDirs = {"~/.local/bin", "~/bin"}] :
        p \in {{"curl", "git"}, {"curl", "git", "ocm"}},
        pd \in {{"~/bin", "/usr/local/bin"}, {"/usr/local/bin"}},
        mf \in BOOLEAN,
        o \in {"Linux", "Darwin", "Windows", "FreeBSD", "SunOS"},
        m \in {"x86_64", "amd64", "AMD64", "arm64", "aarch64", "ARM64", "riscv64", "i686"},
        n \in BOOLEAN, r \in InstallerReleases}

InitInstaller ==
    /\ world \in InstallerWorlds
    /\ dry_run \in BOOLEAN
    /\ config = DefaultConfig
    /\ calls = << >>

NextInstaller == CallInstallOcmCli

SpecInstaller == InitInstaller /\ [][NextInstaller]_vars

----------------------------------------------------------------------------
(* Claims about the CLI installer's platform detection *)

\* the canonical tag of a host architecture, "" when it is not supported
ArchTag(machine) ==
    CASE machine \in {"x86_64", "amd64", "AMD64"} -> "amd64"
      [] machine \in {"arm64", "aarch64", "ARM64"} -> "arm64"
      [] OTHER -> ""

\* the canonical name of a host operating system, "" when not supported
OsTag(os_name) ==
    CASE os_name = "Darwin" -> "darwin" [] os_name = "Linux" -> "linux"
      [] os_name = "Windows" -> "windows" [] OTHER -> ""

\* C20: when ocm is not resolvable, install_ocm_cli normalises the host
\* architecture to amd64 or arm64 and the host OS to darwin, linux or
\* windows, case-insensitively, and calls the download step once with exactly
\* that pair; for any other architecture or OS it returns False without a
\* download and without a retry.
C20_PlatformNormalised ==
    \A i \in DOMAIN calls :
        (calls[i].op = "install_ocm_cli" /\ "ocm" \notin calls[i].before.path) =>
            LET arch == ArchTag(calls[i].before.machine)
                os_name == OsTag(calls[i].before.os)
            IN  IF arch # "" /\ os_name # ""
                THEN calls[i].after.downloadCalls = <<[os_name |-> os_name, arch |-> arch]>>
                ELSE /\ calls[i].res.ret = FALSE
                     /\ calls[i].after.downloadCalls = << >>
                     /\ calls[i].after.fx = {}
                     /\ calls[i].after.installed = calls[i].before.installed

\* a Windows host reporting AMD64: one download call with (windows, amd64)
C20_Witness ==
    \E i \in DOMAIN calls :
        /\ calls[i].op = "install_ocm_cli"
        /\ "ocm" \notin calls[i].before.path
        /\ calls[i].before.os = "Windows"
        /\ calls[i].before.machine = "AMD64"
        /\ calls[i].after.downloadCalls = <<[os_name |-> "windows", arch |-> "amd64"]>>
        /\ calls[i].res.ret = TRUE

----------------------------------------------------------------------------
(* Further claims about the registry lifecycle controller (SpecRegistry) *)

\* a health probe of the call got a successful response
ProbeSucceeded(log) ==
    \E k \in 1..Len(log) :
        log[k].cmd.prog = "curl" /\ log[k].found /\ log[k].rc = 0

\* the running-container query of the call listed the container named name
ReportedRunning(c, name) ==
    /\ c.after.log # << >>
    /\ c.after.log[1].cmd.verb = "ps"
    /\ c.after.log[1].found /\ c.after.log[1].rc = 0
    /\ \E k \in c.before.containers : k.running /\ k.name = name

\* C21 (as claimed): whenever start_registry returns True in executing mode, a
\* health probe of the registry succeeded during that call.
C21_SuccessOnlyFromHealthy ==
    \A i \in 1..Len(calls) :
        (calls[i].op = "start_registry" /\ ~dry_run /\ calls[i].res.ret) =>
            ProbeSucceeded(calls[i].after.log)

\* C21 (amended): whenever start_registry returns True in executing mode,
\* either the named container was reported running by the first query, and
\* then nothing else was executed and no health probe made, or a container
\* was launched and a health probe succeeded during that call.
C21_SuccessOnlyFromRunningOrHealthy ==
    \A i \in 1..Len(calls) :
        (calls[i].op = "start_registry" /\ ~dry_run /\ calls[i].res.ret) =>
            IF ReportedRunning(calls[i], OrName(calls[i].arg.name, config.registry_name))
            THEN /\ Len(calls[i].after.log) = 1
                 /\ ~ProbeSucceeded(calls[i].after.log)
            ELSE /\ Launched(calls[i].after.log)
                 /\ ProbeSucceeded(calls[i].after.log)
                 /\ Probes(calls[i].after.log)[Len(Probes(calls[i].after.log))].rc = 0

\* a start that launched the container and succeeded on its last permitted
\* probe, after failed ones
C21_Witness ==
    /\ calls # << >>
    /\ Last.op = "start_registry" /\ ~dry_run /\ Last.res.ret
    /\ Launched(Last.after.log)
    /\ Len(Probes(Last.after.log)) = MaxHealthAttempts
    /\ Probes(Last.after.log)[1].rc # 0
    /\ ProbeSucceeded(Last.after.log)

\* the positions of the log holding docker commands of the given verb
At(log, verb) ==
    {k \in 1..Len(log) : log[k].cmd.prog = "docker" /\ log[k].cmd.verb = verb}

\* the names of the containers publishing port when the call began: what the
\* engine lists for the port
Publishing(c, port) == {k.name : k \in {x \in c.before.containers : x.port = port}}

\* the log of a start_registry call, found not running, keeps the fixed
\* order for target port and name: the port listing, the removal of each
\* listed container, the removal by name, one launch, then the probes
InFixedOrder(c, log, port, name) ==
    /\ \A k \in At(log, "ps_a_publish") : k = 2 /\ log[k].cmd.port = port
    /\ \A k \in At(log, "run") :
          /\ At(log, "run") = {k}
          /\ k >= 4
          /\ log[k - 1].cmd.verb = "rm_f" /\ log[k - 1].cmd.name = name
          /\ log[2].cmd.verb = "ps_a_publish"
          /\ {log[j].cmd.name : j \in 3..(k - 2)} =
                (IF log[2].rc = 0 THEN Publishing(c, port) ELSE {})
          /\ \A j \in 3..(k - 2) : log[j].cmd.verb = "rm_f"
          /\ log[k].cmd.name = name /\ log[k].cmd.port = port
          /\ log[k].cmd.internal = InternalPort
    /\ \A k \in 1..Len(log) :
          log[k].cmd.prog = "curl" =>
              /\ \E j \in At(log, "run") : j < k /\ log[j].rc = 0
              /\ log[k].cmd.port = port
    /\ \A k \in At(log, "rm_f") :
          log[k].cmd.name \in Publishing(c, port) \cup {name}
    /\ At(log, "rm") \cup At(log, "stop") = {}
    /\ \A k \in c.before.containers \ c.after.containers :
          k.port = port \/ k.name = name

\* C22: when the named container is not reported running, start_registry
\* force-removes every container listed as publishing the target port, then
\* force-removes the container of the target name, then launches a fresh
\* container publishing the target port to internal port 5000, then polls
\* health; no launch precedes the two removal steps, no probe precedes the
\* launch, and no container that neither publishes the target port nor bears
\* the target name is removed.
C22_ReleaseRemoveLaunchPoll ==
    \A i \in 1..Len(calls) :
        (/\ calls[i].op = "start_registry"
         /\ ~ReportedRunning(calls[i], OrName(calls[i].arg.name, config.registry_name))) =>
            /\ InFixedOrder(calls[i], calls[i].after.log,
                            OrPort(calls[i].arg.port, config.registry_port),
                            OrName(calls[i].arg.name, config.registry_name))
            /\ (~dry_run /\ CommandExists("docker", calls[i].before)) =>
                  At(calls[i].after.log, "run") # {}

\* a start that found a container listed on the target port, removed it,
\* launched the registry and probed it, leaving an unrelated container alone
C22_Witness ==
    /\ calls # << >>
    /\ Last.op = "start_registry" /\ ~dry_run
    /\ Publishing(Last, OrPort(Last.arg.port, config.registry_port)) # {}
    /\ Launched(Last.after.log)
    /\ Probes(Last.after.log) # << >>
    /\ Last.after.log[3].cmd.verb = "rm_f" /\ Last.after.log[3].rc = 0
    /\ \E k \in Last.before.containers : k \in Last.after.containers

\* C23 (as claimed): every registry-controller operation converts every
\* external-command failure, a non-zero exit and an engine binary that
\* cannot be located included, into a boolean result and never raises an
\* exception to its caller.
C23_NeverRaises ==
    \A i \in 1..Len(calls) :
        calls[i].op \in {"start_registry", "stop_registry"} =>
            calls[i].res.raised = "none"

----------------------------------------------------------------------------
(* Further claims about the CLI installer (SpecInstaller) *)

\* C24: in executing mode install_ocm_cli returns True only if ocm resolves
\* on the search path when it returns; with ocm already resolvable it
\* succeeds at once, touching neither network nor file system; and after
\* placing the binary it returns False when ocm is still not resolvable.
C24_TrueOnlyIfResolvable ==
    \A i \in 1..Len(calls) :
        (calls[i].op = "install_ocm_cli" /\ ~dry_run) =>
            /\ calls[i].res.ret => CommandExists("ocm", calls[i].after)
            /\ CommandExists("ocm", calls[i].before) =>
                  /\ calls[i].res.ret
                  /\ calls[i].after = calls[i].before
            /\ ("fs_install" \in calls[i].after.fx
                  /\ ~CommandExists("ocm", calls[i].after)) => ~calls[i].res.ret
            /\ (~CommandExists("ocm", calls[i].before) /\ calls[i].res.ret) =>
                  "fs_install" \in calls[i].after.fx

\* the binary was placed in a directory that is not on the search path:
\* the installer reports failure
C24_Witness ==
    /\ calls # << >>
    /\ Last.op = "install_ocm_cli" /\ ~dry_run
    /\ ~CommandExists("ocm", Last.before)
    /\ "fs_install" \in Last.after.fx
    /\ Last.after.installed # {}
    /\ ~CommandExists("ocm", Last.after)
    /\ ~Last.res.ret

\* the installer got as far as the release metadata of a supported platform
Selecting(c) ==
    /\ c.op = "install_ocm_cli"
    /\ ~CommandExists("ocm", c.before)
    /\ c.before.online
    /\ ArchTag(c.before.machine) # "" /\ OsTag(c.before.os) # ""

\* the assets of the release named exactly ocm-{version}-{os}-{arch}[.exe]
\* for the platform of the call
ExactAssets(c) ==
    {a \in Range(c.before.release.assets) :
        AssetName(a) = BinaryName(c.before.release.tag_name,
                                  OsTag(c.before.os), ArchTag(c.before.machine))}

\* C25 (as claimed): the installer downloads the release asset named
\* ocm-{version}-{os}-{arch}, .exe appended on windows, for the detected
\* platform and the latest release's version; an asset of a different name
\* or platform is never selected, and when no asset matches the installer
\* returns False without downloading anything.
C25_ExactAssetSelected ==
    \A i \in 1..Len(calls) :
        Selecting(calls[i]) =>
            /\ calls[i].after.downloaded \subseteq ExactAssets(calls[i])
            /\ ExactAssets(calls[i]) # {} => calls[i].after.downloaded # {}
            /\ ExactAssets(calls[i]) = {} =>
                  /\ ~calls[i].res.ret
                  /\ "net_download" \notin calls[i].after.fx

----------------------------------------------------------------------------
(* Further claims about the demo runner (SpecDemo) *)

\* the positions of the log_step messages in the output of a call
StepPositions(out) == {j \in DOMAIN out : out[j].msg = "step"}

\* the position of the message that announces step k
StepPos(out, k) == CHOOSE j \in StepPositions(out) : out[j].n = k

\* the scripts run during step k of K announced steps, with their outcomes:
\* in dry-run mode the scripts named by the would-execute messages between
\* the step's message and the next, otherwise the bash commands executed
\* between them
RunsOf(c, k, K) ==
    IF dry_run
    THEN LET seg == SubSeq(c.after.out, StepPos(c.after.out, k) + 1,
                           IF k < K THEN StepPos(c.after.out, k + 1) - 1
                           ELSE Len(c.after.out))
             ms == SelectSeq(seg, LAMBDA m : m.msg = "would_execute")
         IN  [j \in DOMAIN ms |-> [name |-> ms[j].arg, ok |-> TRUE]]
    ELSE LET seg == SubSeq(c.after.log, c.after.out[StepPos(c.after.out, k)].seen + 1,
                           IF k < K THEN c.after.out[StepPos(c.after.out, k + 1)].seen
                           ELSE Len(c.after.log))
             rs == SelectSeq(seg, LAMBDA e : e.cmd.prog = "bash")
         IN  [j \in DOMAIN rs |-> [name |-> rs[j].cmd.name,
                                   ok |-> rs[j].found /\ rs[j].rc = 0]]

\* step k ran all its scripts, in order, and each succeeded
StepSucceeded(c, k, K) ==
    /\ [j \in DOMAIN RunsOf(c, k, K) |-> RunsOf(c, k, K)[j].name] = DemoSteps[k]
    /\ \A j \in DOMAIN RunsOf(c, k, K) : RunsOf(c, k, K)[j].ok

\* the fault of the call struck step k or the pause after it
Struck(c, k) ==
    \/ Hit(c.arg.fault, "step", k)
    \/ c.arg.interactive /\ k < Len(DemoSteps) /\ Hit(c.arg.fault, "pause", k)

\* C27: given a ready environment, run_quick_demo runs its five steps in the
\* fixed order; it stops at the first step that returns False or raises and
\* runs no later step; within a two-script step the second script runs only
\* if the first succeeded; and it returns True iff all five steps succeeded.
C27_StepsInOrderUntilFirstFailure ==
    \A i \in DOMAIN calls :
        (calls[i].op = "run_quick_demo" /\ ReadyBefore(calls[i])) =>
            LET c == calls[i]
                K == Cardinality(StepPositions(c.after.out))
            IN  /\ K \in 1..Len(DemoSteps)
                /\ \A k \in 1..K : \E j \in StepPositions(c.after.out) : c.after.out[j].n = k
                /\ \A k \in 1..(K - 1) : StepPos(c.after.out, k) < StepPos(c.after.out, k + 1)
                /\ \A j \in DOMAIN c.after.log :
                      c.after.log[j].cmd.prog \in {"bash", "chmod"} =>
                          j > c.after.out[StepPos(c.after.out, 1)].seen
                /\ \A k \in 1..K :
                      LET rs == RunsOf(c, k, K) IN
                      /\ Len(rs) <= Len(DemoSteps[k])
                      /\ \A j \in DOMAIN rs : rs[j].name = DemoSteps[k][j]
                      /\ \A j \in 1..(Len(rs) - 1) : rs[j].ok
                      /\ Hit(c.arg.fault, "step", k) => rs = << >>
                /\ \A k \in 1..(K - 1) : StepSucceeded(c, k, K) /\ ~Struck(c, k)
                /\ c.res.raised = "none"
                /\ c.res.ret <=> /\ K = Len(DemoSteps)
                                 /\ \A k \in 1..K : StepSucceeded(c, k, K) /\ ~Struck(c, k)

\* a tour that stopped in its fourth step: the first script of the step
\* failed, the second was not run, and neither was step five
C27_Witness ==
    \E i \in DOMAIN calls :
        /\ calls[i].op = "run_quick_demo" /\ ~dry_run
        /\ ReadyBefore(calls[i])
        /\ Cardinality(StepPositions(calls[i].after.out)) = 4
        /\ Len(RunsOf(calls[i], 4, 4)) = 1
        /\ ~RunsOf(calls[i], 4, 4)[1].ok
        /\ StepSucceeded(calls[i], 3, 4)
        /\ ~calls[i].res.ret

\* C28 (as claimed): given a ready environment, run_all_tests attempts the
\* five example sets in order, continuing after a failed set; it records a
\* pass or fail for each of the five, whether or not the set's directory
\* exists, and returns True iff all five passed.
C28_AllFiveSetsRecorded ==
    \A i \in DOMAIN calls :
        (calls[i].op = "run_all_tests" /\ ReadyBefore(calls[i])) =>
            LET started == Messages(calls[i].after.out, {"testing"})
                results == Messages(calls[i].after.out, {"tests_passed", "tests_failed"})
            IN  /\ calls[i].res.raised = "none"
                /\ [k \in DOMAIN started |-> started[k].arg] = ExampleDirs
                /\ [k \in DOMAIN results |-> results[k].arg] = ExampleDirs
                /\ calls[i].res.ret <=>
                      \A k \in DOMAIN results : results[k].msg = "tests_passed"

----------------------------------------------------------------------------
(* Specification of the setup subcommand: setup_environment, or main with
   `setup` and with `setup --check-only`, on every host *)

CallSetupCommand ==
    /\ calls = << >>
    /\ \E check_only \in BOOLEAN :
          InvokeMain(Args("setup", check_only, "", FALSE), NoFault,
                     Main(Args("setup", check_only, "", FALSE), NoFault,
                          config, Fresh(world)))

NextSetupCommand == CallSetupEnvironment \/ CallSetupCommand

SpecSetupCommand == InitSetup /\ [][NextSetupCommand]_vars

\* the call is main with the setup subcommand and --check-only
CheckOnly(c) ==
    c.op = "main" /\ c.arg.args.command = "setup" /\ c.arg.args.check_only

\* the engine commands of the call that remove or launch a container
Alters(log) ==
    SelectSeq(log, LAMBDA e : e.cmd.prog = "docker" /\ e.cmd.verb \in {"rm_f", "run"})

----------------------------------------------------------------------------
(* The demo runner in dry-run mode (SpecDemo) *)

\* nothing of a demo or a test was reached: no step announced, no script
\* run, looked up or announced as would-be executed
NothingReached(c) ==
    /\ ScriptRuns(c.after.log) = << >>
    /\ Messages(c.after.out, {"step", "testing", "would_execute", "script_not_found"}) = << >>

\* C30: in dry-run mode with a non-empty registry name the environment is
\* never ready: is_registry_running returns False, the synthetic empty
\* output holding no container name, get_environment_status reports ready
\* false whatever tools are installed, and run_quick_demo, run_all_tests and
\* run_specific_example return False (exit code 1) without reaching a step
\* or a script.
C30_DryRunNeverReady ==
    \A i \in DOMAIN calls :
        dry_run =>
            /\ (/\ calls[i].op = "is_registry_running"
                /\ OrName(calls[i].arg.name, config.registry_name) # "") =>
                  /\ ~calls[i].res.ret
                  /\ calls[i].after.log = << >>
            /\ (calls[i].op = "get_environment_status" /\ config.registry_name # "") =>
                  /\ ~calls[i].res.ret.ready
                  /\ ~calls[i].res.ret.registry.running
            /\ (calls[i].op \in EntryPoints /\ config.registry_name # "") =>
                  /\ calls[i].res.raised = "none"
                  /\ ~calls[i].res.ret
                  /\ NothingReached(calls[i])
            /\ (calls[i].op = "main" /\ config.registry_name # "") =>
                  /\ calls[i].res.raised = "none"
                  /\ calls[i].res.exit = 1
                  /\ NothingReached(calls[i])

\* a dry run of the tour on a host that is ready in executing mode: all six
\* tools, the engine up and the registry container running
C30_Witness ==
    \E i \in DOMAIN calls :
        /\ dry_run /\ config.registry_name # ""
        /\ calls[i].op = "run_quick_demo"
        /\ GetEnvironmentStatus(FALSE, config, calls[i].before).ret.ready
        /\ AllValues(CheckPrerequisites(TRUE, calls[i].before).ret)
        /\ ~calls[i].res.ret
        /\ NothingReached(calls[i])

====
